---- MODULE Spec2Model ----
(***************************************************************************)
(* OttoChain watchdog: condition detectors, restart orchestrator and the   *)
(* control loop, modelled from the TypeScript sources.                     *)
(*                                                                         *)
(* Time is counted in minutes.  A node is identified by its index in       *)
(* config.nodes (1-based here, 0-based in the source), which also stands   *)
(* for its ip.                                                             *)
(***************************************************************************)
EXTENDS Integers, Sequences, FiniteSets, TLC

VARIABLES
  povs,        \* input list of findMajority (fork specification)
  forkNodes,   \* config.nodes.length seen by the fork detector (fork specification)
  forkSnap,    \* HealthSnapshot given to the fork detector (fork specification)
  forkLayer,   \* the layer of forkSnap that carries povs (fork specification)
  forkOut,     \* outputs of the fork functions (fork specification)
  config,         \* the Config returned by loadConfig
  now,            \* Date.now(), in minutes
  world,          \* the condition the metagraph is in while the watchdog runs
  ml0Ordinal,     \* the ml0 snapshot ordinal the metagraph has reached
  restartHistory, \* the orchestrator's in-memory restartHistory
  stallTracker,   \* the global StallTracker of index.ts, by node
  pc,             \* where main / runHealthCheck stands
  snapshot,       \* the HealthSnapshot of the running cycle
  cond,           \* position in the conditions list of runHealthCheck
  result,         \* the DetectionResult handed to executeRestart
  event,          \* the RestartEvent under construction in executeRestart
  rs,             \* call stack of the restart procedure in flight
  cmds,           \* remote operations issued by executeRestart in this cycle
  ret,            \* how the last executeRestart call of the cycle ended
  shutdown,       \* progress of the SIGINT / SIGTERM handler
  faults,         \* failed remote operations so far
  call,           \* history variable: the last executeRestart call of the cycle
  cycle,          \* history variable: what the running cycle has done
  views,          \* cluster views the nodes hold on one layer (source specification)
  stallPrev,       \* history variable: the stall detector's last call (stall specification)
  reader,         \* the HealthReader, the cache it reads and its last call
  publisher,      \* the EventPublisher: its pool and its postgresAvailable flag
  sink            \* the rows of the monitoring_events table

forkVars == <<povs, forkNodes, forkSnap, forkLayer, forkOut>>

mainVars == <<config, now, world, ml0Ordinal, restartHistory, stallTracker, pc, snapshot, cond,
              result, event, rs, cmds, ret, shutdown, faults, call, cycle>>

auxVars == <<views, stallPrev, reader, publisher, sink>>

vars == <<forkVars, mainVars, auxVars>>

\* ------------------------------------------------------------------------
\* Generic helpers
\* ------------------------------------------------------------------------

Range(s) == {s[i] : i \in 1..Len(s)}

RECURSIVE SeqsUpTo(_, _)
\* all sequences over S of length 0..n
SeqsUpTo(S, n) ==
  IF n = 0 THEN {<<>>}
  ELSE LET shorter == SeqsUpTo(S, n - 1)
       IN shorter \cup {Append(s, x) : s \in {t \in shorter : Len(t) = n - 1}, x \in S}

\* Array.prototype.map with an ip projection
Ips(s) == [i \in 1..Len(s) |-> s[i].ip]

\* ------------------------------------------------------------------------
\* Types
\* ------------------------------------------------------------------------

ALL_LAYERS == <<"gl0", "ml0", "cl1", "dl1">>
METAGRAPH_LAYERS == <<"ml0", "cl1", "dl1">>

\* ------------------------------------------------------------------------
\* Fork detection (conditions/forked-cluster.ts)
\* ------------------------------------------------------------------------

\* Digests that are canonical array-index strings, with their numeric value.
\* JavaScript enumerates such keys of an object first, in ascending numeric
\* order, before all other string keys (which come in insertion order).
ArrayIndexValue == [h \in {"7"} |-> 7]

IsArrayIndex(h) == h \in DOMAIN ArrayIndexValue

\* first occurrences of the elements of s, in order of appearance
RECURSIVE Dedup(_)
Dedup(s) ==
  IF s = <<>> THEN <<>>
  ELSE LET front == Dedup(SubSeq(s, 1, Len(s) - 1))
           last == s[Len(s)]
       IN IF last \in Range(front) THEN front ELSE Append(front, last)

\* ascending sequence of a finite set of array-index keys
RECURSIVE SortIndexKeys(_)
SortIndexKeys(S) ==
  IF S = {} THEN <<>>
  ELSE LET m == CHOOSE k \in S : \A o \in S : ArrayIndexValue[k] <= ArrayIndexValue[o]
       IN <<m>> \o SortIndexKeys(S \ {m})

\* Object.entries(freq) key order, for keys inserted in the order of hs
ObjectKeys(hs) ==
  LET ins == Dedup(hs)
  IN SortIndexKeys({k \in Range(ins) : IsArrayIndex(k)})
       \o SelectSeq(ins, LAMBDA k : ~IsArrayIndex(k))

Freq(hs, h) == Cardinality({i \in 1..Len(hs) : hs[i] = h})

\* Object.entries(freq).sort((a, b) => b[1] - a[1])[0][0]: the sort is stable,
\* so the winner is the first key, in key order, with the greatest count.
TopKey(hs) ==
  LET keys == ObjectKeys(hs)
      best == CHOOSE i \in 1..Len(keys) :
                /\ \A j \in 1..Len(keys) : Freq(hs, keys[j]) <= Freq(hs, keys[i])
                /\ \A j \in 1..(i - 1) : Freq(hs, keys[j]) < Freq(hs, keys[i])
  IN keys[best]

\* the filter of the legacy findMajority, which has no reachable flag
IsReachablePovLegacy(p) == ~p.error

IsReachablePov(p) == p.reachable /\ ~p.error

findMajority(ps) ==
  LET reachable == SelectSeq(ps, IsReachablePov)
      unreachable == Ips(SelectSeq(ps, LAMBDA p : ~p.reachable \/ p.error))
  IN IF Len(reachable) = 0
     THEN [majorityHash |-> "", majorityNodes |-> <<>>, minorityNodes |-> <<>>,
           unreachable |-> unreachable]
     ELSE LET majorityHash == TopKey([i \in 1..Len(reachable) |-> reachable[i].hash])
          IN [majorityHash |-> majorityHash,
              majorityNodes |-> Ips(SelectSeq(reachable, LAMBDA p : p.hash = majorityHash)),
              minorityNodes |-> Ips(SelectSeq(reachable, LAMBDA p : p.hash # majorityHash)),
              unreachable |-> unreachable]

\* A LayerHealth record; present = FALSE stands for node.layers.find(...)
\* returning undefined, clusterHash = "" for an absent (or empty) clusterHash.
NoLayerHealth ==
  [present |-> FALSE, reachable |-> FALSE, state |-> "Unreachable", ordinal |-> -1,
   clusterSize |-> 0, clusterHash |-> ""]

ReadyHealth(hash, size) ==
  [present |-> TRUE, reachable |-> TRUE, state |-> "Ready", ordinal |-> 100,
   clusterSize |-> size, clusterHash |-> hash]

DownHealth ==
  [present |-> TRUE, reachable |-> FALSE, state |-> "Unreachable", ordinal |-> -1,
   clusterSize |-> 0, clusterHash |-> ""]

LayerPov(node, layer) ==
  LET layerHealth == node.layers[layer]
  IN IF ~layerHealth.present \/ ~layerHealth.reachable
     THEN [ip |-> node.ip, hash |-> "", reachable |-> FALSE, error |-> TRUE]
     ELSE IF layerHealth.clusterHash # ""
     THEN [ip |-> node.ip, hash |-> layerHealth.clusterHash, reachable |-> TRUE,
           error |-> FALSE]
     ELSE [ip |-> node.ip, hash |-> "size-" \o ToString(layerHealth.clusterSize),
           reachable |-> TRUE, error |-> FALSE]

checkLayerForkFromSnapshot(snap, layer) ==
  LET m == findMajority([i \in 1..Len(snap.nodes) |-> LayerPov(snap.nodes[i], layer)])
  IN [forked |-> Len(m.minorityNodes) > 0, minorityNodes |-> m.minorityNodes,
      unreachable |-> m.unreachable]

NotDetected(condition, details) ==
  [detected |-> FALSE, condition |-> condition, details |-> details,
   restartScope |-> "none", affectedNodes |-> <<>>, affectedLayers |-> <<>>]

\* escalation only when every configured node is in the minority
ForkScopeStrict(minorityCount, nodeCount) ==
  IF minorityCount > nodeCount - 1 THEN "full-layer" ELSE "individual-node"

ForkScope(minorityCount, nodeCount) ==
  IF minorityCount >= nodeCount - 1 THEN "full-layer" ELSE "individual-node"

RECURSIVE ForkFromLast(_, _, _)
\* a loop that keeps the last forked layer instead of returning at the first
ForkFromLast(nodeCount, snap, k) ==
  IF k > Len(METAGRAPH_LAYERS)
  THEN NotDetected("ForkedCluster", "")
  ELSE LET layer == METAGRAPH_LAYERS[k]
           r == checkLayerForkFromSnapshot(snap, layer)
           rest == ForkFromLast(nodeCount, snap, k + 1)
       IN IF rest.detected THEN rest
          ELSE IF r.forked
          THEN [detected |-> TRUE, condition |-> "ForkedCluster", details |-> layer,
                restartScope |-> ForkScope(Len(r.minorityNodes), nodeCount),
                affectedNodes |-> r.minorityNodes, affectedLayers |-> <<layer>>]
          ELSE rest

RECURSIVE ForkFrom(_, _, _)
\* the loop over ml0, cl1, dl1 from position k on
ForkFrom(nodeCount, snap, k) ==
  IF k > Len(METAGRAPH_LAYERS)
  THEN NotDetected("ForkedCluster", "")
  ELSE LET layer == METAGRAPH_LAYERS[k]
           r == checkLayerForkFromSnapshot(snap, layer)
       IN IF r.forked
          THEN [detected |-> TRUE, condition |-> "ForkedCluster", details |-> layer,
                restartScope |-> ForkScope(Len(r.minorityNodes), nodeCount),
                affectedNodes |-> r.minorityNodes, affectedLayers |-> <<layer>>]
          ELSE ForkFrom(nodeCount, snap, k + 1)

detectForkedClusterFromSnapshot(nodeCount, snap) == ForkFrom(nodeCount, snap, 1)

\* ------------------------------------------------------------------------
\* Stall detection (conditions/snapshots-stopped.ts)
\* ------------------------------------------------------------------------

\* StallTracker.state without an entry for a key
NoState == [tracked |-> FALSE, ordinal |-> -1, timestamp |-> 0]

\* an update that stamps the entry on every call
TrackerUpdateAlways(tracker, nodeId, ordinal, timestamp) ==
  [tracker EXCEPT ![nodeId] =
     [tracked |-> TRUE, ordinal |-> ordinal, timestamp |-> timestamp]]

\* StallTracker.update: the map after the call
TrackerUpdate(tracker, nodeId, ordinal, timestamp) ==
  LET prev == tracker[nodeId]
  IN IF ~prev.tracked \/ ordinal # prev.ordinal
     THEN [tracker EXCEPT ![nodeId] =
             [tracked |-> TRUE, ordinal |-> ordinal, timestamp |-> timestamp]]
     ELSE tracker

\* an update that reports every change of the ordinal as an advance
TrackerChanged(tracker, nodeId, ordinal) ==
  LET prev == tracker[nodeId]
  IN ~prev.tracked \/ ordinal # prev.ordinal

\* StallTracker.update: the value returned
TrackerAdvanced(tracker, nodeId, ordinal) ==
  LET prev == tracker[nodeId]
  IN ~prev.tracked \/ ordinal > prev.ordinal

\* positions of the nodes that answer on ml0, whatever ordinal they report
Ml0Reachable(snap) ==
  {i \in 1..Len(snap.nodes) :
     snap.nodes[i].layers["ml0"].present /\ snap.nodes[i].layers["ml0"].reachable}

\* positions of the nodes that answer on ml0 with an ordinal >= 0
Ml0Candidates(snap) ==
  {i \in 1..Len(snap.nodes) :
     LET ml0 == snap.nodes[i].layers["ml0"]
     IN ml0.present /\ ml0.reachable /\ ml0.ordinal >= 0}

\* best-of selection: the candidate with the highest ordinal
HighestCandidate(snap) ==
  CHOOSE i \in Ml0Candidates(snap) :
    \A j \in Ml0Candidates(snap) :
      \/ snap.nodes[j].layers["ml0"].ordinal < snap.nodes[i].layers["ml0"].ordinal
      \/ snap.nodes[j].layers["ml0"].ordinal = snap.nodes[i].layers["ml0"].ordinal /\ i <= j

\* the loop over snapshot.nodes breaks at the first candidate
FirstCandidate(snap) ==
  CHOOSE i \in Ml0Candidates(snap) : \A j \in Ml0Candidates(snap) : i <= j

\* a stall only at the moment the elapsed time equals the threshold
StaleExactly(staleMinutes, thresholdMinutes) == staleMinutes = thresholdMinutes

\* a stall only once the elapsed time is above the threshold
StaleEnoughStrict(staleMinutes, thresholdMinutes) == staleMinutes > thresholdMinutes

\* staleMinutes >= thresholdMinutes
StaleEnough(staleMinutes, thresholdMinutes) == staleMinutes >= thresholdMinutes

StallDetected(nodeCount) ==
  [detected |-> TRUE, condition |-> "SnapshotsStopped", details |-> "stalled",
   restartScope |-> "full-metagraph",
   affectedNodes |-> [i \in 1..nodeCount |-> i],
   affectedLayers |-> <<"ml0", "cl1", "dl1">>]

\* detectSnapshotsStoppedFromSnapshot: the result and the tracker it leaves
detectSnapshotsStoppedFromSnapshot(cfg, snap, tracker, clock) ==
  IF Ml0Candidates(snap) = {}
  THEN [result |-> NotDetected("SnapshotsStopped", "ML0 unreachable"), tracker |-> tracker]
  ELSE LET first == FirstCandidate(snap)
           reachableNode == snap.nodes[first].ip
           currentOrdinal == snap.nodes[first].layers["ml0"].ordinal
           prevTracked == tracker[reachableNode].tracked
           advanced == TrackerAdvanced(tracker, reachableNode, currentOrdinal)
           after == TrackerUpdate(tracker, reachableNode, currentOrdinal, clock)
           staleMinutes == clock - after[reachableNode].timestamp
       IN IF advanced \/ ~prevTracked
          THEN [result |-> NotDetected("SnapshotsStopped", ""), tracker |-> after]
          ELSE IF StaleEnough(staleMinutes, cfg.snapshotStallMinutes)
          THEN [result |-> StallDetected(cfg.nodes), tracker |-> after]
          ELSE [result |-> NotDetected("SnapshotsStopped", ""), tracker |-> after]

\* ------------------------------------------------------------------------
\* Unhealthy-node detection (conditions/unhealthy-nodes.ts)
\* ------------------------------------------------------------------------

STUCK_STATE_SET == {"WaitingForDownload", "Leaving", "Offline", "DownloadInProgress",
                    "Unreachable"}

\* a classification that looks at reachability only
IsUnhealthyUnreachableOnly(layerHealth) == ~layerHealth.present \/ ~layerHealth.reachable

IsUnhealthy(layerHealth) ==
  ~layerHealth.present \/ ~layerHealth.reachable \/ layerHealth.state \in STUCK_STATE_SET

\* unhealthyByLayer[layer], the empty list standing for a missing key
UnhealthyOn(snap, layer) ==
  Ips(SelectSeq(snap.nodes, LAMBDA node : IsUnhealthy(node.layers[layer])))

RECURSIVE Flatten(_)
Flatten(ss) == IF ss = <<>> THEN <<>> ELSE Head(ss) \o Flatten(Tail(ss))

\* escalation only above the configured node count
IsFullyDownStrict(unhealthyCount, allNodesCount) == unhealthyCount > allNodesCount

\* unhealthyByLayer[layer]?.length === allNodesCount
IsFullyDown(unhealthyCount, allNodesCount) == unhealthyCount = allNodesCount

\* every fully-down layer restarted on its own
DownLayersSelf(layer) == <<layer>>

\* the affectedLayers literal of each fully-down return
DownLayers(layer) ==
  CASE layer = "gl0" -> <<"gl0", "ml0", "cl1", "dl1">>
    [] layer = "ml0" -> <<"ml0", "cl1", "dl1">>
    [] OTHER -> <<layer>>

detectUnhealthyNodesFromSnapshot(cfg, snap) ==
  LET affectedLayers == SelectSeq(ALL_LAYERS, LAMBDA l : Len(UnhealthyOn(snap, l)) > 0)
      allNodesCount == cfg.nodes
      allIps == [i \in 1..allNodesCount |-> i]
      fullyDown(l) == Len(UnhealthyOn(snap, l)) > 0
                        /\ IsFullyDown(Len(UnhealthyOn(snap, l)), allNodesCount)
      hit(l, scope) ==
        [detected |-> TRUE, condition |-> "UnhealthyNodes", details |-> "fully down",
         restartScope |-> scope, affectedNodes |-> allIps, affectedLayers |-> DownLayers(l)]
  IN IF Len(affectedLayers) = 0 THEN NotDetected("UnhealthyNodes", "")
     ELSE IF fullyDown("gl0") THEN hit("gl0", "full-metagraph")
     ELSE IF fullyDown("ml0") THEN hit("ml0", "full-metagraph")
     ELSE IF fullyDown("cl1") THEN hit("cl1", "full-layer")
     ELSE IF fullyDown("dl1") THEN hit("dl1", "full-layer")
     ELSE [detected |-> TRUE, condition |-> "UnhealthyNodes", details |-> "individual",
           restartScope |-> "individual-node",
           affectedNodes |->
             Dedup(Flatten([k \in 1..Len(affectedLayers) |->
                              UnhealthyOn(snap, affectedLayers[k])])),
           affectedLayers |-> affectedLayers]

\* ------------------------------------------------------------------------
\* Restart orchestrator (restart/orchestrator.ts, held in services/ssh.ts)
\* ------------------------------------------------------------------------

\* a count that includes an entry lying exactly on the cutoff
recentRestartCountInclusive(history, minutes, clock) ==
  Len(SelectSeq(history, LAMBDA r : r.timestamp >= clock - minutes))

\* recentRestartCount(minutes) at time clock
recentRestartCount(history, minutes, clock) ==
  Len(SelectSeq(history, LAMBDA r : r.timestamp > clock - minutes))

\* a limit that only trips once the maximum is exceeded
RateLimitedStrict(cfg, history, clock) ==
  recentRestartCount(history, 60, clock) > cfg.maxRestartsPerHour

\* the rate-limit test of executeRestart
RateLimited(cfg, history, clock) ==
  recentRestartCount(history, 60, clock) >= cfg.maxRestartsPerHour

\* a cooldown that only follows a successful restart
CooldownAfterSuccess(cfg, history, clock) ==
  /\ Len(history) > 0
  /\ history[Len(history)].success
  /\ clock - history[Len(history)].timestamp < cfg.restartCooldownMinutes

\* the cooldown test of executeRestart
CooldownActive(cfg, history, clock) ==
  /\ Len(history) > 0
  /\ clock - history[Len(history)].timestamp < cfg.restartCooldownMinutes

\* One remote operation of a restart procedure, as it is issued: docker stop
\* (killLayerProcess), docker start (dockerControl), the join command
\* (joinCluster), and the two HTTP polls (getNodeInfo, waitForReady).  ok is
\* the outcome: the command went through, the node answered, the node was Ready.
Cmd(op, layer, node, ok) == [op |-> op, layer |-> layer, node |-> node, ok |-> ok]

\* A frame of the call stack of a restart procedure.
Frame(fn, layer, step, i, li) ==
  [fn |-> fn, layer |-> layer, step |-> step, i |-> i, li |-> li]

IdleSlot == Frame("idle", "", "idle", 0, 0)
DoneSlot == Frame("idle", "", "done", 0, 0)
FailedSlot == Frame("idle", "", "failed", 0, 0)
NoPar == [l \in {"cl1", "dl1"} |-> IdleSlot]

Out(stack, par, cs, status, error) ==
  [stack |-> stack, par |-> par, cmds |-> cs, status |-> status, error |-> error]

Pop(stack) == SubSeq(stack, 1, Len(stack) - 1)
Top(stack) == stack[Len(stack)]
SetTop(stack, f) == [stack EXCEPT ![Len(stack)] = f]

\* a kill that reaches the genesis node only
KillGenesisOnly(layer, nodeCount, bad) == <<Cmd("stop", layer, 1, 1 # bad)>>

\* killLayerProcess on every node of a layer (Promise.all over config.nodes);
\* bad = 0 when every command goes through, else the node whose command fails
KillAll(layer, nodeCount, bad) ==
  [n \in 1..nodeCount |-> Cmd("stop", layer, n, n # bad)]

\* a restartFullLayer that treats ml0 like any other layer
CallFullLayerAlone(stack, layer) ==
  Append(stack, Frame("restartFullLayer", layer, "kill", 0, 0))

\* restartFullLayer(config, layer) is called: ml0 is handed to
\* restartFullMetagraph, any other layer starts by killing all its nodes
CallFullLayer(stack, layer) ==
  IF layer = "ml0"
  THEN stack \o <<Frame("restartFullLayer", layer, "escalated", 0, 0),
                  Frame("restartFullMetagraph", "ml0", "killAll", 1, 0)>>
  ELSE Append(stack, Frame("restartFullLayer", layer, "kill", 0, 0))

RECURSIVE Return(_, _)
\* the frame above stack has returned: its caller goes on
Return(stack, res) ==
  IF stack = <<>> THEN [stack |-> <<>>, status |-> "done"]
  ELSE LET caller == Top(stack)
       IN IF caller.fn = "executeRestart"
          THEN IF caller.step = "full-layer" /\ caller.li < Len(res.affectedLayers)
               THEN [stack |-> CallFullLayer(
                                 <<[caller EXCEPT !.li = caller.li + 1]>>,
                                 res.affectedLayers[caller.li + 1]),
                     status |-> "running"]
               ELSE [stack |-> <<>>, status |-> "done"]
          ELSE Return(Pop(stack), res)

\* config.nodes.find(n => !affectedNodes.includes(n.ip)); 0 when there is none
HealthyNode(cfg, res) ==
  LET free == {n \in 1..cfg.nodes : n \notin Range(res.affectedNodes)}
  IN IF free = {} THEN 0 ELSE CHOOSE n \in free : \A m \in free : n <= m

\* restartIndividualNodes reaches the head of its loop over the layers, at
\* position li; below is the stack under its own frame
EnterIndLayer(below, cfg, res, li) ==
  IF li > Len(res.affectedLayers)
  THEN Return(below, res)
  ELSE LET layer == res.affectedLayers[li]
       IN IF HealthyNode(cfg, res) = 0
          THEN [stack |-> CallFullLayer(
                            Append(below, Frame("restartIndividualNodes", layer,
                                                "escalated", 0, li)), layer),
                status |-> "running"]
          ELSE [stack |-> Append(below, Frame("restartIndividualNodes", layer,
                                              "refInfo", 0, li)),
                status |-> "running"]

\* the try block of executeRestart is entered
StartProcedure(cfg, res) ==
  LET bottom == Frame("executeRestart", "", res.restartScope, 0, 1)
  IN IF res.restartScope = "individual-node"
     THEN EnterIndLayer(<<bottom>>, cfg, res, 1)
     ELSE IF res.restartScope = "full-layer"
     THEN IF Len(res.affectedLayers) = 0 THEN [stack |-> <<>>, status |-> "done"]
          ELSE [stack |-> CallFullLayer(<<bottom>>, res.affectedLayers[1]),
                status |-> "running"]
     ELSE IF res.restartScope = "full-metagraph"
     THEN [stack |-> <<bottom, Frame("restartFullMetagraph", "ml0", "killAll", 1, 0)>>,
           status |-> "running"]
     ELSE [stack |-> <<>>, status |-> "done"]

\* One step of the body shared by restartFullLayer (a layer other than ml0)
\* and the ml0 part of restartFullMetagraph: kill all, start genesis (node 1),
\* wait for it, fetch its identity, start and join the validators one by one,
\* wait for all.  status: "next", "ret" (the body is over) or "throw".
BodyStep(f, nodeCount, ok, bad) ==
  LET step(fr, cs, st, err) == [frame |-> fr, cmds |-> cs, status |-> st, error |-> err]
      to(name, i) == [f EXCEPT !.step = name, !.i = i]
  IN CASE f.step = "kill" ->
            IF ok THEN step(to("startGenesis", 0), KillAll(f.layer, nodeCount, 0), "next", "")
            ELSE step(f, KillAll(f.layer, nodeCount, bad), "throw", "ssh failed")
       [] f.step = "startGenesis" ->
            step(to("waitGenesis", 0), <<Cmd("start", f.layer, 1, ok)>>,
                 IF ok THEN "next" ELSE "throw", "docker start failed")
       [] f.step = "waitGenesis" ->
            step(to("genesisInfo", 0), <<Cmd("wait", f.layer, 1, ok)>>,
                 IF ok THEN "next" ELSE "throw", "genesis did not become Ready")
       [] f.step = "genesisInfo" ->
            step(IF nodeCount >= 2 THEN to("startValidator", 2) ELSE to("waitAll", 1),
                 <<Cmd("info", f.layer, 1, ok)>>,
                 IF ok THEN "next" ELSE "throw", "cannot get genesis info")
       [] f.step = "startValidator" ->
            step(to("joinValidator", f.i), <<Cmd("start", f.layer, f.i, ok)>>,
                 IF ok THEN "next" ELSE "throw", "docker start failed")
       [] f.step = "joinValidator" ->
            step(IF f.i < nodeCount THEN to("startValidator", f.i + 1) ELSE to("waitAll", 1),
                 <<Cmd("join", f.layer, f.i, ok)>>,
                 IF ok THEN "next" ELSE "throw", "ssh failed")
       [] f.step = "waitAll" ->
            step(to("waitAll", f.i + 1), <<Cmd("wait", f.layer, f.i, ok)>>,
                 IF f.i < nodeCount THEN "next" ELSE "ret", "")

\* a kill phase that takes the gl0 containers down as well
KillOrderWithGl0 == <<"dl1", "cl1", "ml0", "gl0">>

\* the layers in dependency order
KillOrderForward == <<"ml0", "cl1", "dl1">>

\* the layers restartFullMetagraph kills, in this order
KillOrder == <<"dl1", "cl1", "ml0">>

\* One step of restartIndividualNodes inside its loop over the affected nodes.
IndStep(stack, cfg, res, ok) ==
  LET f == Top(stack)
      below == Pop(stack)
      node == IF f.i >= 1 /\ f.i <= Len(res.affectedNodes) THEN res.affectedNodes[f.i] ELSE 0
      to(name, i) == SetTop(stack, [f EXCEPT !.step = name, !.i = i])
      run(st, cs) == Out(st, NoPar, cs, "running", "")
      threw(cs, err) == Out(<<>>, NoPar, cs, "threw", err)
      fin(r, cs) == Out(r.stack, NoPar, cs, r.status, "")
  IN CASE f.step = "refInfo" ->
            LET cs == <<Cmd("info", f.layer, HealthyNode(cfg, res), ok)>>
            IN IF ~ok
               THEN run(CallFullLayer(SetTop(stack, [f EXCEPT !.step = "escalated"]),
                                      f.layer), cs)
               ELSE IF Len(res.affectedNodes) = 0
               THEN fin(EnterIndLayer(below, cfg, res, f.li + 1), cs)
               ELSE run(to("kill", 1), cs)
       [] f.step = "kill" ->
            IF ok THEN run(to("start", f.i), <<Cmd("stop", f.layer, node, TRUE)>>)
            ELSE threw(<<Cmd("stop", f.layer, node, FALSE)>>, "ssh failed")
       [] f.step = "start" ->
            IF ok THEN run(to("join", f.i), <<Cmd("start", f.layer, node, TRUE)>>)
            ELSE threw(<<Cmd("start", f.layer, node, FALSE)>>, "docker start failed")
       [] f.step = "join" ->
            IF ok THEN run(to("wait", f.i), <<Cmd("join", f.layer, node, TRUE)>>)
            ELSE threw(<<Cmd("join", f.layer, node, FALSE)>>, "ssh failed")
       [] f.step = "wait" ->
            LET cs == <<Cmd("wait", f.layer, node, ok)>>
            IN IF f.i < Len(res.affectedNodes)
               THEN run(to("kill", f.i + 1), cs)
               ELSE fin(EnterIndLayer(below, cfg, res, f.li + 1), cs)

\* One step of restartFullLayer for a layer other than ml0, on the call stack.
FullLayerStep(stack, cfg, res, ok, bad) ==
  LET b == BodyStep(Top(stack), cfg.nodes, ok, bad)
  IN IF b.status = "throw" THEN Out(<<>>, NoPar, b.cmds, "threw", b.error)
     ELSE IF b.status = "ret"
     THEN LET r == Return(Pop(stack), res) IN Out(r.stack, NoPar, b.cmds, r.status, "")
     ELSE Out(SetTop(stack, b.frame), NoPar, b.cmds, "running", "")

\* One step of restartFullMetagraph before it starts cl1 and dl1.
FullMetagraphStep(stack, cfg, res, ok, bad) ==
  LET f == Top(stack)
  IN IF f.step = "killAll"
     THEN \* a failed kill is swallowed by .catch(() => {})
          Out(SetTop(stack, IF f.i < Len(KillOrder)
                            THEN [f EXCEPT !.i = f.i + 1]
                            ELSE [f EXCEPT !.step = "startGenesis", !.i = 0]),
              NoPar, KillAll(KillOrder[f.i], cfg.nodes, IF ok THEN 0 ELSE bad),
              "running", "")
     ELSE LET b == BodyStep(f, cfg.nodes, ok, bad)
          IN IF b.status = "throw" THEN Out(<<>>, NoPar, b.cmds, "threw", b.error)
             ELSE IF b.status = "ret"
             THEN \* Promise.all over restartFullLayer(cl1), restartFullLayer(dl1)
                  Out(SetTop(stack, [f EXCEPT !.step = "l1", !.i = 0]),
                      [l \in {"cl1", "dl1"} |-> Frame("restartFullLayer", l, "kill", 0, 0)],
                      b.cmds, "running", "")
             ELSE Out(SetTop(stack, b.frame), NoPar, b.cmds, "running", "")

SlotOver(slot) == slot.step \in {"done", "failed"}

\* One step of one of the two concurrent restartFullLayer calls of
\* restartFullMetagraph; a failure is caught and logged by its .catch
ParallelStep(stack, par, cfg, res, layer, ok, bad) ==
  LET b == BodyStep(par[layer], cfg.nodes, ok, bad)
      slot == IF b.status = "throw" THEN FailedSlot
              ELSE IF b.status = "ret" THEN DoneSlot ELSE b.frame
      par2 == [par EXCEPT ![layer] = slot]
  IN IF \A l \in DOMAIN par2 : SlotOver(par2[l])
     THEN LET r == Return(Pop(stack), res) IN Out(r.stack, NoPar, b.cmds, r.status, "")
     ELSE Out(stack, par2, b.cmds, "running", "")

\* ------------------------------------------------------------------------
\* Configuration (config.ts) and the health snapshots of the control loop
\* ------------------------------------------------------------------------

NodeCount == 3
DefaultCooldownMinutes == 10
DefaultMaxRestartsPerHour == 6
DefaultStallMinutes == 4
DefaultIntervalMinutes == 1
\* the default timeoutMs of waitForReady, 120 s
ReadyTimeoutMinutes == 2

\* a shorter cooldown and a smaller hourly maximum set through the environment
ShortCooldownMinutes == 2
SmallMaxRestarts == 2
\* the clock stops at MaxTime; at most MaxFaults remote operations fail
MaxTime == 4
MaxFaults == 1

DefaultConfig(daemon) ==
  [nodes |-> NodeCount,
   restartCooldownMinutes |-> DefaultCooldownMinutes,
   maxRestartsPerHour |-> DefaultMaxRestartsPerHour,
   snapshotStallMinutes |-> DefaultStallMinutes,
   healthCheckIntervalMinutes |-> DefaultIntervalMinutes,
   daemon |-> daemon]

Configs ==
  {DefaultConfig(d) : d \in BOOLEAN}
    \cup {[DefaultConfig(d) EXCEPT !.restartCooldownMinutes = ShortCooldownMinutes,
                                   !.maxRestartsPerHour = SmallMaxRestarts] : d \in BOOLEAN}

\* what one node reports on one layer
KindLayerHealth(kind) ==
  CASE kind = "ok" -> ReadyHealth("aaa", NodeCount)
    [] kind = "alt" -> ReadyHealth("bbb", NodeCount)
    [] kind = "alt2" -> ReadyHealth("7", NodeCount)
    [] kind = "stuck" -> [ReadyHealth("aaa", NodeCount) EXCEPT !.state = "WaitingForDownload"]
    [] kind = "down" -> DownHealth

AllOk == [i \in 1..NodeCount |-> "ok"]
AllDown == [i \in 1..NodeCount |-> "down"]

\* The conditions of the metagraph a cycle may meet: per world, the layers
\* that deviate from "every node Ready with the same cluster view".
World ==
  [healthy |-> {},
   forkOne |-> {<<"cl1", <<"ok", "ok", "alt">>>>},
   forkMl0 |-> {<<"ml0", <<"ok", "alt", "alt2">>>>},
   downCl1 |-> {<<"cl1", AllDown>>},
   downMl0 |-> {<<"ml0", AllDown>>},
   forkAndDown |-> {<<"cl1", <<"ok", "alt", "alt2">>>>, <<"dl1", <<"ok", "down", "ok">>>>},
   scattered |-> {<<"cl1", <<"down", "ok", "ok">>>>, <<"dl1", <<"ok", "down", "down">>>>}]

WorldNames == DOMAIN World

WorldKinds(w, layer) ==
  IF \E d \in World[w] : d[1] = layer
  THEN (CHOOSE d \in World[w] : d[1] = layer)[2]
  ELSE AllOk

\* the HealthSnapshot read in world w when ml0 has reached ordinal ord
MkSnapshot(w, ord) ==
  [nodes |-> [i \in 1..NodeCount |->
     [ip |-> i,
      layers |-> [l \in Range(ALL_LAYERS) |->
         LET h == KindLayerHealth(WorldKinds(w, l)[i])
         IN IF l = "ml0" /\ h.reachable THEN [h EXCEPT !.ordinal = ord] ELSE h]]]]

NoSnapshot == [nodes |-> <<>>]

\* ------------------------------------------------------------------------
\* executeRestart and the control loop (index.ts)
\* ------------------------------------------------------------------------

Conditions == <<"ForkedCluster", "SnapshotsStopped", "UnhealthyNodes">>

\* conditions[k].detect(): the result and the stall tracker it leaves
Detect(k, cfg, snap, tracker, clock) ==
  CASE Conditions[k] = "ForkedCluster" ->
         [result |-> detectForkedClusterFromSnapshot(cfg.nodes, snap), tracker |-> tracker]
    [] Conditions[k] = "SnapshotsStopped" ->
         detectSnapshotsStoppedFromSnapshot(cfg, snap, tracker, clock)
    [] Conditions[k] = "UnhealthyNodes" ->
         [result |-> detectUnhealthyNodesFromSnapshot(cfg, snap), tracker |-> tracker]

\* the checks executeRestart makes before it touches any node
Admission(cfg, history, clock, res) ==
  IF ~res.detected \/ res.restartScope = "none" THEN "none"
  ELSE IF RateLimited(cfg, history, clock) THEN "rate-limit"
  ELSE IF CooldownActive(cfg, history, clock) THEN "cooldown"
  ELSE "admit"

\* const event: RestartEvent = {...}; error = "" stands for an absent error
NewEvent(res, clock) ==
  [timestamp |-> clock, scope |-> res.restartScope, condition |-> res.condition,
   layers |-> res.affectedLayers, nodes |-> res.affectedNodes,
   success |-> FALSE, error |-> ""]

NoEvent == NewEvent(NotDetected("", ""), 0)

\* a history that records successful restarts only
PushEventOnSuccess(history, ev) == IF ev.success THEN Append(history, ev) ELSE history

\* restartHistory.push(event)
PushEvent(history, ev) == Append(history, ev)

\* no try / catch around the procedures: the error reaches the caller
PropagateError(ev, err) == [event |-> ev, ret |-> "threw", push |-> FALSE]

\* the catch block of executeRestart
CatchError(ev, err) ==
  [event |-> [ev EXCEPT !.error = err], ret |-> "false", push |-> TRUE]

\* a loop without the early return
SkipsNever(restarted) == FALSE

\* if (restarted) return: the remaining conditions are skipped
SkipsRemaining(restarted) == restarted

NoRs == [stack |-> <<>>, par |-> NoPar]

\* The log of remote operations: seq holds those of the sequential parts, in
\* the order issued; par holds, per layer, those of the two concurrent
\* restartFullLayer calls of restartFullMetagraph (each in its own order).
NoCmds == [seq |-> <<>>, par |-> [l \in {"cl1", "dl1"} |-> <<>>]]

Issued(log) == log.seq \o log.par["cl1"] \o log.par["dl1"]

NoCall ==
  [made |-> FALSE, at |-> 0, history |-> <<>>, cmds |-> NoCmds, scope |-> "none",
   verdict |-> "none", escalated |-> FALSE, failed |-> FALSE]

NoCycle == [evaluated |-> <<>>, admitted |-> 0, emitted |-> <<>>]

Alive == shutdown # "exited" /\ pc # "exited"

NoStallPrev == [called |-> FALSE]

\* no HealthReader constructed
NoReader == [constructed |-> FALSE]

\* initPostgres without config.postgresUrl: no pool, publishing disabled
NoPostgres == [pool |-> FALSE, postgresAvailable |-> FALSE]

\* new EventPublisher(config)
NewPublisher(url) ==
  IF ~url THEN NoPostgres ELSE [pool |-> TRUE, postgresAvailable |-> TRUE]

\* how pool.query ends: the row is inserted, the table is missing, or the
\* query fails for another reason
QueryOutcomes == {"ok", "no-table", "error"}

\* EventPublisher.publish: the publisher and the table after the call; no
\* outcome makes it throw
publish(pub, rows, ev, outcome) ==
  IF ~pub.pool \/ ~pub.postgresAvailable
  THEN [publisher |-> pub, sink |-> rows, stored |-> FALSE]
  ELSE CASE outcome = "ok" -> [publisher |-> pub, sink |-> rows \cup {ev}, stored |-> TRUE]
         [] outcome = "no-table" ->
              [publisher |-> [pub EXCEPT !.postgresAvailable = FALSE], sink |-> rows,
               stored |-> FALSE]
         [] outcome = "error" -> [publisher |-> pub, sink |-> rows, stored |-> FALSE]

\* the WatchdogEvent publishRestart builds; index.ts passes no error text
RestartRecord(detection, scope, success) ==
  [eventType |-> IF success THEN "RESTART" ELSE "RESTART_FAILED",
   condition |-> detection.condition,
   severity |-> "CRITICAL",
   scope |-> scope,
   affectedNodes |-> detection.affectedNodes,
   affectedLayers |-> detection.affectedLayers,
   success |-> success,
   message |-> IF success THEN "Restart completed" ELSE "Restart failed: unknown error"]

PublisherIdle ==
  /\ publisher = NoPostgres
  /\ sink = {}

AuxIdle ==
  /\ views = <<>>
  /\ stallPrev = NoStallPrev
  /\ reader = NoReader
  /\ PublisherIdle

ForkIdle ==
  /\ povs = <<>>
  /\ forkNodes = 0
  /\ forkSnap = NoSnapshot
  /\ forkLayer = "ml0"
  /\ forkOut = [pc |-> "input"]

Init ==
  /\ ForkIdle
  /\ AuxIdle
  /\ config \in Configs
  /\ world \in [name : WorldNames, advancing : BOOLEAN]
  /\ now = 0
  /\ ml0Ordinal = 0
  /\ restartHistory = <<>>
  /\ stallTracker = [n \in 1..NodeCount |-> NoState]
  /\ pc = "snapshot"
  /\ snapshot = NoSnapshot
  /\ cond = 0
  /\ result = NotDetected("", "")
  /\ event = NoEvent
  /\ rs = NoRs
  /\ cmds = NoCmds
  /\ ret = "none"
  /\ shutdown = "none"
  /\ faults = 0
  /\ call = NoCall
  /\ cycle = NoCycle

\* runHealthCheck, phase 1: await healthReader.getHealthSnapshot()
GetSnapshot ==
  /\ Alive /\ pc = "snapshot"
  /\ ml0Ordinal' = IF world.advancing THEN ml0Ordinal + 1 ELSE ml0Ordinal
  /\ snapshot' = MkSnapshot(world.name, ml0Ordinal')
  /\ pc' = "detect"
  /\ cond' = 1
  /\ cmds' = NoCmds
  /\ ret' = "none"
  /\ call' = NoCall
  /\ cycle' = NoCycle
  /\ UNCHANGED <<forkVars, auxVars, config, now, world, restartHistory, stallTracker, result, event,
                 rs, shutdown, faults>>

\* a main that sleeps and checks again in either mode
AfterConditionLoops(k, restarted) ==
  IF ~restarted /\ k < 3 THEN [pc |-> "detect", cond |-> k + 1] ELSE [pc |-> "sleep", cond |-> 0]

\* where runHealthCheck goes once condition k is dealt with; restarted is
\* what executeRestart returned for it (FALSE when it was not called)
AfterCondition(k, restarted) ==
  IF ~SkipsRemaining(restarted) /\ k < Len(Conditions)
  THEN [pc |-> "detect", cond |-> k + 1]
  ELSE [pc |-> IF config.daemon THEN "sleep" ELSE "exited", cond |-> 0]

Evaluated(name, detected) ==
  [name |-> name, detected |-> detected, restarted |-> FALSE, threw |-> FALSE]

\* the end of an executeRestart call that got past the checks
Finish(ev, status, err) ==
  LET c == IF status = "threw" THEN CatchError(ev, err)
           ELSE [event |-> [ev EXCEPT !.success = TRUE], ret |-> "true", push |-> TRUE]
  IN /\ event' = c.event
     /\ ret' = c.ret
     /\ restartHistory' = IF c.push THEN PushEvent(restartHistory, c.event)
                          ELSE restartHistory
     /\ rs' = NoRs
     /\ pc' = "publish"

\* One iteration of the loop over the conditions: the detector runs and, on
\* a detection, executeRestart is called and runs up to its first await.
CheckCondition ==
  /\ Alive /\ pc = "detect"
  /\ LET d == Detect(cond, config, snapshot, stallTracker, now)
         verdict == Admission(config, restartHistory, now, d.result)
         sp == StartProcedure(config, d.result)
     IN /\ stallTracker' = d.tracker
        /\ result' = d.result
        /\ cycle' = [cycle EXCEPT
                       !.evaluated = Append(@, Evaluated(Conditions[cond], d.result.detected)),
                       !.admitted = IF verdict = "admit" THEN @ + 1 ELSE @]
        /\ IF ~d.result.detected
           THEN /\ pc' = AfterCondition(cond, FALSE).pc
                /\ cond' = AfterCondition(cond, FALSE).cond
                /\ UNCHANGED <<restartHistory, event, rs, ret, call>>
           ELSE /\ call' = [made |-> TRUE, at |-> now, history |-> restartHistory,
                            cmds |-> cmds, scope |-> d.result.restartScope,
                            verdict |-> verdict,
                            escalated |-> \E i \in 1..Len(sp.stack) :
                                             sp.stack[i].step = "escalated",
                            failed |-> FALSE]
                /\ cond' = cond
                /\ IF verdict # "admit"
                   THEN /\ ret' = "false"
                        /\ pc' = "publish"
                        /\ UNCHANGED <<restartHistory, event, rs>>
                   ELSE IF sp.status = "running"
                   THEN /\ event' = NewEvent(d.result, now)
                        /\ rs' = [stack |-> sp.stack, par |-> NoPar]
                        /\ pc' = "restart"
                        /\ UNCHANGED <<restartHistory, ret>>
                   ELSE Finish(NewEvent(d.result, now), "done", "")
  /\ UNCHANGED <<forkVars, auxVars, config, now, world, ml0Ordinal, snapshot, cmds, shutdown, faults>>

\* minutes spent in an operation: a ready-wait that fails has run into its
\* timeout (the 90 s wait of restartIndividualNodes is counted like the
\* 120 s default); the other operations take no whole minute
Elapsed(cs) ==
  IF \E i \in 1..Len(cs) : cs[i].op = "wait" /\ ~cs[i].ok THEN ReadyTimeoutMinutes ELSE 0

\* the state after one awaited operation of the restart in flight
Proceed(out, ok, slot) ==
  /\ ok \/ faults < MaxFaults
  /\ now + Elapsed(out.cmds) <= MaxTime
  /\ now' = now + Elapsed(out.cmds)
  /\ faults' = IF ok THEN faults ELSE faults + 1
  /\ cmds' = IF slot = "" THEN [cmds EXCEPT !.seq = @ \o out.cmds]
            ELSE [cmds EXCEPT !.par[slot] = @ \o out.cmds]
  /\ call' = [call EXCEPT
                !.escalated = @ \/ \E i \in 1..Len(out.stack) : out.stack[i].step = "escalated",
                !.failed = @ \/ out.status = "threw"]
  /\ IF out.status = "running"
     THEN /\ rs' = [stack |-> out.stack, par |-> out.par]
          /\ UNCHANGED <<restartHistory, event, ret, pc>>
     ELSE Finish(event, out.status, out.error)
  /\ UNCHANGED <<forkVars, auxVars, config, world, ml0Ordinal, stallTracker, snapshot, cond, result,
                 shutdown, cycle>>

\* the next awaited operation of the procedure on top of the call stack
RestartStep ==
  /\ Alive /\ pc = "restart"
  /\ rs.par = NoPar
  /\ \E ok \in BOOLEAN, bad \in 1..config.nodes :
       LET f == Top(rs.stack)
       IN Proceed(CASE f.fn = "restartIndividualNodes" -> IndStep(rs.stack, config, result, ok)
                    [] f.fn = "restartFullLayer" ->
                         FullLayerStep(rs.stack, config, result, ok, bad)
                    [] f.fn = "restartFullMetagraph" ->
                         FullMetagraphStep(rs.stack, config, result, ok, bad),
                  ok, "")

\* the next awaited operation of restartFullLayer(cl1) or restartFullLayer(dl1)
\* while restartFullMetagraph runs the two concurrently
RestartParallelStep ==
  /\ Alive /\ pc = "restart"
  /\ rs.par # NoPar
  /\ \E layer \in DOMAIN rs.par, ok \in BOOLEAN, bad \in 1..config.nodes :
       /\ ~SlotOver(rs.par[layer])
       /\ Proceed(ParallelStep(rs.stack, rs.par, config, result, layer, ok, bad), ok, layer)

\* await eventPublisher.publishRestart(result, result.restartScope, restarted)
\* and the rest of the loop body; an error thrown by executeRestart skips
\* the publication and lands in the catch of the loop
PublishRestart ==
  /\ Alive /\ pc = "publish"
  /\ \E outcome \in QueryOutcomes :
       LET record == RestartRecord(result, result.restartScope, ret = "true")
           p == IF ret = "threw"
                THEN [publisher |-> publisher, sink |-> sink, stored |-> FALSE]
                ELSE publish(publisher, sink, record, outcome)
       IN /\ publisher' = p.publisher
          /\ sink' = p.sink
          /\ cycle' = [cycle EXCEPT
                         !.evaluated[Len(cycle.evaluated)].restarted = (ret = "true"),
                         !.emitted = IF ret = "threw" THEN @
                                     ELSE Append(@, [record |-> record, stored |-> p.stored,
                                                     verdict |-> call.verdict])]
  /\ pc' = AfterCondition(cond, ret = "true").pc
  /\ cond' = AfterCondition(cond, ret = "true").cond
  /\ UNCHANGED <<forkVars, views, stallPrev, reader, config, now, world, ml0Ordinal,
                 restartHistory, stallTracker, snapshot, result, event, rs, cmds, ret, shutdown,
                 faults, call>>

\* await new Promise(resolve => setTimeout(resolve, interval)) in main.  The
\* shutdown handler is taken to reach process.exit before an interval that
\* started after the signal runs out, so no cycle starts once it is closing.
Sleep ==
  /\ Alive /\ pc = "sleep"
  /\ shutdown = "none"
  /\ now + config.healthCheckIntervalMinutes <= MaxTime
  /\ now' = now + config.healthCheckIntervalMinutes
  /\ pc' = "snapshot"
  /\ UNCHANGED <<forkVars, auxVars, config, world, ml0Ordinal, restartHistory, stallTracker, snapshot, cond,
                 result, event, rs, cmds, ret, shutdown, faults, call, cycle>>

\* SIGINT or SIGTERM is delivered: the shutdown handler starts
Signal ==
  /\ Alive /\ config.daemon
  /\ shutdown = "none"
  /\ shutdown' = "closing"
  /\ UNCHANGED <<forkVars, auxVars, config, now, world, ml0Ordinal, restartHistory, stallTracker, pc, snapshot,
                 cond, result, event, rs, cmds, ret, faults, call, cycle>>

\* the handler has awaited publishLifecycle and the two close calls:
\* process.exit(0)
Exit ==
  /\ Alive /\ shutdown = "closing"
  /\ shutdown' = "exited"
  /\ UNCHANGED <<forkVars, auxVars, config, now, world, ml0Ordinal, restartHistory, stallTracker, pc, snapshot,
                 cond, result, event, rs, cmds, ret, faults, call, cycle>>

Next ==
  \/ GetSnapshot
  \/ CheckCondition
  \/ RestartStep
  \/ RestartParallelStep
  \/ PublishRestart
  \/ Sleep
  \/ Signal
  \/ Exit

Spec == Init /\ [][Next]_vars

\* ------------------------------------------------------------------------
\* Properties of executeRestart and of the control loop
\* ------------------------------------------------------------------------

LastEntry(history) == history[Len(history)]

\* the last executeRestart call was made while the newest history entry was
\* younger than the cooldown
CallInCooldown ==
  /\ call.made
  /\ Len(call.history) > 0
  /\ call.at - LastEntry(call.history).timestamp < config.restartCooldownMinutes

\* entries of the history the call found whose timestamps lie in the trailing hour
CountedByCall ==
  Cardinality({i \in 1..Len(call.history) : call.history[i].timestamp > call.at - 60})

CallOverLimit == call.made /\ CountedByCall >= config.maxRestartsPerHour

CallRefused ==
  /\ pc # "restart"
  /\ ret = "false"
  /\ restartHistory = call.history
  /\ cmds = call.cmds

\* C1: an executeRestart call made while the most recent history entry is
\* younger than restartCooldownMinutes issues no remote command, returns
\* false and leaves the history unchanged, whatever the scope asked for and
\* the scope of the previous entry.
C1_CooldownRefuses == CallInCooldown => CallRefused

\* a refusal by the cooldown alone, of a scope other than the previous entry's
C1_Witness ==
  /\ CallInCooldown
  /\ ~CallOverLimit
  /\ call.scope # LastEntry(call.history).scope
  /\ pc = "publish"

\* C2: an executeRestart call that finds at least maxRestartsPerHour history
\* entries within the trailing 60 minutes is refused by the rate limit: it
\* returns false, issues no remote command and leaves the history unchanged.
C2_RateLimitRefuses == CallOverLimit => (CallRefused /\ call.verdict = "rate-limit")

\* a refusal by the rate limit at a moment the cooldown has run out
C2_Witness ==
  /\ CallOverLimit
  /\ ~CallInCooldown
  /\ pc = "publish"

CallAdmitted == call.made /\ call.verdict = "admit"

\* C3: an executeRestart call that passes both checks appends exactly one
\* entry to the history, also on failure and on internal escalation; the
\* entry's success flag is the value returned, and a failed entry carries
\* an error description.
C3_OneEntryPerAdmittedCall ==
  CallAdmitted =>
    IF pc = "restart"
    THEN restartHistory = call.history
    ELSE /\ Len(restartHistory) = Len(call.history) + 1
         /\ SubSeq(restartHistory, 1, Len(call.history)) = call.history
         /\ LastEntry(restartHistory).success = (ret = "true")
         /\ ~LastEntry(restartHistory).success => LastEntry(restartHistory).error # ""

\* an admitted call that escalated internally and then failed
C3_Witness ==
  /\ CallAdmitted
  /\ call.escalated
  /\ pc = "publish"
  /\ ret = "false"
  /\ Len(restartHistory) = Len(call.history) + 1

EvaluatedInOrder ==
  /\ Len(cycle.evaluated) <= Len(Conditions)
  /\ \A i \in 1..Len(cycle.evaluated) : cycle.evaluated[i].name = Conditions[i]

C6_AtMostOneRestartPerCycle == cycle.admitted <= 1

\* (layer, node) pairs whose process was stopped with no start issued since
StoppedNotStarted(log) ==
  LET cs == Issued(log)
  IN {<<cs[i].layer, cs[i].node>> : i \in
        {j \in 1..Len(cs) :
           /\ cs[j].op = "stop" /\ cs[j].ok
           /\ ~\E k \in (j + 1)..Len(cs) :
                 cs[k].op = "start" /\ cs[k].layer = cs[j].layer /\ cs[k].node = cs[j].node}}

\* C7: a shutdown signal that arrives during a restart procedure lets the
\* procedure complete: the process does not exit while a layer process the
\* procedure has stopped has not had its start command issued.
C7_NoExitWithStoppedLayer ==
  (shutdown = "exited" /\ pc = "restart") => StoppedNotStarted(cmds) = {}

\* ------------------------------------------------------------------------
\* Fork specification: the fork functions applied to bounded inputs
\* ------------------------------------------------------------------------

MaxPovs == 4

Hashes == {"aaa", "bbb", "7", "size-3"}

PovKinds ==
  [hash : Hashes, reachable : {TRUE}, error : {FALSE}]
    \cup {[hash |-> "", reachable |-> FALSE, error |-> TRUE],
          [hash |-> "aaa", reachable |-> FALSE, error |-> FALSE],
          [hash |-> "aaa", reachable |-> TRUE, error |-> TRUE]}

MkPov(i, kind) ==
  [ip |-> i, hash |-> kind.hash, reachable |-> kind.reachable, error |-> kind.error]

\* the LayerHealth a point of view stands for
KindHealth(kind) ==
  IF kind.reachable /\ ~kind.error
  THEN IF kind.hash = "size-3" THEN ReadyHealth("", 3) ELSE ReadyHealth(kind.hash, 3)
  ELSE IF kind.error THEN DownHealth ELSE NoLayerHealth

\* the other layers of a fork snapshot: all nodes agree, or node 1 dissents
ForkProfiles == {"agree", "dissent"}

ProfileHealth(profile, i) ==
  IF profile = "dissent" /\ i = 1 THEN ReadyHealth("bbb", 3) ELSE ReadyHealth("aaa", 3)

ForkSnapshot(kinds, layer, others) ==
  [nodes |-> [i \in 1..Len(kinds) |->
     [ip |-> i,
      layers |-> [l \in Range(ALL_LAYERS) |->
                    IF l = layer THEN KindHealth(kinds[i])
                    ELSE IF l = "gl0" THEN ReadyHealth("aaa", 3)
                    ELSE ProfileHealth(others[l], i)]]]]

\* the control loop at rest
MainIdle ==
  /\ config = DefaultConfig(FALSE)
  /\ world = [name |-> "healthy", advancing |-> TRUE]
  /\ now = 0
  /\ ml0Ordinal = 0
  /\ restartHistory = <<>>
  /\ stallTracker = [n \in 1..NodeCount |-> NoState]
  /\ pc = "exited"
  /\ snapshot = NoSnapshot
  /\ cond = 0
  /\ result = NotDetected("", "")
  /\ event = NoEvent
  /\ rs = NoRs
  /\ cmds = NoCmds
  /\ ret = "none"
  /\ shutdown = "none"
  /\ faults = 0
  /\ call = NoCall
  /\ cycle = NoCycle

ForkInit ==
  \E kinds \in SeqsUpTo(PovKinds, MaxPovs), layer \in Range(METAGRAPH_LAYERS),
     others \in [Range(METAGRAPH_LAYERS) -> ForkProfiles] :
    /\ povs = [i \in 1..Len(kinds) |-> MkPov(i, kinds[i])]
    /\ forkNodes = Len(kinds)
    /\ forkLayer = layer
    /\ forkSnap = ForkSnapshot(kinds, layer, others)
    /\ forkOut = [pc |-> "input"]
    /\ MainIdle
    /\ AuxIdle

ForkApply ==
  /\ forkOut.pc = "input"
  /\ forkOut' = [pc |-> "done",
                 maj |-> findMajority(povs),
                 chk |-> checkLayerForkFromSnapshot(forkSnap, forkLayer),
                 res |-> detectForkedClusterFromSnapshot(forkNodes, forkSnap)]
  /\ UNCHANGED <<povs, forkNodes, forkSnap, forkLayer, mainVars, auxVars>>

ForkNext == ForkApply

SpecFork == ForkInit /\ [][ForkNext]_vars

\* ------------------------------------------------------------------------
\* Properties of fork detection
\* ------------------------------------------------------------------------

ForkDone == forkOut.pc = "done"

PovUnreachable(p) == ~p.reachable \/ p.error

\* the digests held by the reachable points of view
ReachableHashes == {povs[i].hash : i \in {j \in 1..Len(povs) : ~PovUnreachable(povs[j])}}

HoldersOf(h) == {i \in 1..Len(povs) : ~PovUnreachable(povs[i]) /\ povs[i].hash = h}

\* the digest met first when iterating the nodes
FirstSeenHash ==
  LET first == CHOOSE i \in 1..Len(povs) :
                 /\ ~PovUnreachable(povs[i])
                 /\ \A j \in 1..(i - 1) : PovUnreachable(povs[j])
  IN povs[first].hash

\* exactly two digests, each held by half of the reachable nodes
TieCase ==
  /\ Cardinality(ReachableHashes) = 2
  /\ \A h \in ReachableHashes : \A g \in ReachableHashes :
        Cardinality(HoldersOf(h)) = Cardinality(HoldersOf(g))

\* the nodes of the snapshot that answer on a layer
AnsweringOn(layer) ==
  {i \in 1..Len(forkSnap.nodes) :
     forkSnap.nodes[i].layers[layer].present /\ forkSnap.nodes[i].layers[layer].reachable}

\* C8: an unreachable node (reachable = FALSE or an error recorded) is always
\* in unreachable and never in minorityNodes or majorityNodes; the three lists
\* partition the input nodes; and a layer on which all answering nodes hold
\* the same digest is not reported as forked, whatever the unreachable ones say.
C8_UnreachableNeverMinority ==
  ForkDone =>
    LET m == forkOut.maj
        maj == Range(m.majorityNodes)
        min == Range(m.minorityNodes)
        unr == Range(m.unreachable)
    IN /\ \A i \in 1..Len(povs) :
            PovUnreachable(povs[i]) => i \in unr /\ i \notin maj \cup min
       /\ maj \cup min \cup unr = 1..Len(povs)
       /\ maj \cap min = {} /\ maj \cap unr = {} /\ min \cap unr = {}
       /\ Len(m.majorityNodes) + Len(m.minorityNodes) + Len(m.unreachable) = Len(povs)
       /\ (\A i \in AnsweringOn(forkLayer) : \A j \in AnsweringOn(forkLayer) :
             LET a == forkSnap.nodes[i].layers[forkLayer]
                 b == forkSnap.nodes[j].layers[forkLayer]
             IN a.clusterHash = b.clusterHash /\ a.clusterSize = b.clusterSize)
            => ~forkOut.chk.forked

\* C8 witness: two nodes agree, a third is flagged unreachable although it
\* carries a digest, and the layer is not reported as forked.
C8_Witness ==
  /\ ForkDone
  /\ Len(forkOut.maj.majorityNodes) = 2
  /\ forkOut.maj.minorityNodes = <<>>
  /\ \E i \in 1..Len(povs) :
       ~povs[i].reachable /\ ~povs[i].error /\ povs[i].hash # ""
         /\ i \in Range(forkOut.maj.unreachable)
  /\ Cardinality(AnsweringOn(forkLayer)) = 2
  /\ ~forkOut.chk.forked

\* C9: on a tie between two digests the minority is exactly one of the two
\* groups, and the majority is the group whose digest is met first.
C9_TieFirstSeenWins ==
  ForkDone /\ TieCase =>
    /\ Range(forkOut.maj.majorityNodes) = HoldersOf(FirstSeenHash)
    /\ Range(forkOut.maj.minorityNodes) =
         {i \in 1..Len(povs) : ~PovUnreachable(povs[i])} \ HoldersOf(FirstSeenHash)
    /\ forkOut.maj.majorityHash = FirstSeenHash

\* The reported layer of a positive fork detection, and its counts.
ReportedLayer == forkOut.res.affectedLayers[1]

MajorityCount(layer) ==
  LET r == checkLayerForkFromSnapshot(forkSnap, layer)
  IN Len(forkSnap.nodes) - Len(r.minorityNodes) - Len(r.unreachable)

\* C10 as stated: full-layer whenever the apparent majority is a single node
\* or the reachable nodes split 1:1, and individual-node otherwise.
C10_FullLayerWhenMajoritySingle ==
  ForkDone /\ forkOut.res.detected =>
    LET r == checkLayerForkFromSnapshot(forkSnap, ReportedLayer)
        single == MajorityCount(ReportedLayer) = 1
        even == MajorityCount(ReportedLayer) = Len(r.minorityNodes)
    IN forkOut.res.restartScope =
         IF single \/ even THEN "full-layer" ELSE "individual-node"

\* C10 amended: full-layer exactly when every configured node answers on the
\* reported layer and the majority is a single node; individual-node in every
\* other case; with one dissenter among three answering nodes the scope is
\* individual-node and affectedNodes is that node alone.
C10_FullLayerWhenAllButOne ==
  ForkDone /\ forkOut.res.detected =>
    LET r == checkLayerForkFromSnapshot(forkSnap, ReportedLayer)
    IN /\ forkOut.res.restartScope =
            IF Len(r.unreachable) = 0 /\ MajorityCount(ReportedLayer) = 1
            THEN "full-layer" ELSE "individual-node"
       /\ (forkNodes = 3 /\ Len(r.unreachable) = 0 /\ Len(r.minorityNodes) = 1)
            => /\ forkOut.res.restartScope = "individual-node"
               /\ Len(forkOut.res.affectedNodes) = 1
               /\ forkOut.res.affectedNodes = r.minorityNodes

\* C10 witness: three answering nodes with three digests escalate to
\* full-layer (a majority of one, nobody unreachable).
C10_Witness ==
  /\ ForkDone
  /\ forkNodes = 3
  /\ forkOut.res.detected
  /\ forkOut.res.restartScope = "full-layer"
  /\ Len(forkOut.res.affectedNodes) = 2
  /\ Cardinality(AnsweringOn(ReportedLayer)) = 3

\* positions in ml0, cl1, dl1 of the layers of forkSnap with a non-empty minority
ForkedLayers ==
  {k \in 1..Len(METAGRAPH_LAYERS) :
     Len(checkLayerForkFromSnapshot(forkSnap, METAGRAPH_LAYERS[k]).minorityNodes) > 0}

FirstForkedLayer == CHOOSE k \in ForkedLayers : \A j \in ForkedLayers : k <= j

\* C11: fork detection reports the first layer, in the order ml0, cl1, dl1,
\* that has a non-empty minority: affectedLayers is that single layer and
\* affectedNodes its minority; it reports detected = false iff no layer has
\* a non-empty minority.
C11_FirstForkedLayerReported ==
  ForkDone =>
    IF ForkedLayers = {}
    THEN ~forkOut.res.detected /\ forkOut.res.restartScope = "none"
    ELSE /\ forkOut.res.detected
         /\ forkOut.res.affectedLayers = <<METAGRAPH_LAYERS[FirstForkedLayer]>>
         /\ forkOut.res.affectedNodes =
              checkLayerForkFromSnapshot(forkSnap,
                                         METAGRAPH_LAYERS[FirstForkedLayer]).minorityNodes

\* cl1 and dl1 are both forked, ml0 is not: cl1 is reported
C11_Witness ==
  /\ ForkDone
  /\ ForkedLayers = {2, 3}
  /\ forkOut.res.affectedLayers = <<"cl1">>

\* ------------------------------------------------------------------------
\* Source specification: one cluster situation read through the cache and
\* through direct polling (services/health-reader.ts), then fork detection
\* ------------------------------------------------------------------------

MaxMembers == 3

MemberIds == 1..MaxMembers

\* member lists without repetition, in any order
MemberLists ==
  {m \in SeqsUpTo(MemberIds, MaxMembers) : \A i, j \in 1..Len(m) : i # j => m[i] # m[j]}

RECURSIVE SortIds(_)
\* [...members].map(m => m.id).sort()
SortIds(ids) ==
  IF ids = <<>> THEN <<>>
  ELSE LET least == CHOOSE i \in 1..Len(ids) : \A j \in 1..Len(ids) : ids[i] <= ids[j]
       IN <<ids[least]>> \o
          SortIds([k \in 1..(Len(ids) - 1) |-> IF k < least THEN ids[k] ELSE ids[k + 1]])

RECURSIVE Stringify(_)
Stringify(ids) == IF ids = <<>> THEN "" ELSE ToString(Head(ids)) \o "," \o Stringify(Tail(ids))

\* a digest of the identifier list in the order given
hashInOrder(members) == "h-" \o Stringify(members)

\* hashClusterPOV: the digest of the sorted identifier list (sha256, taken
\* as free of collisions on these lists)
hashClusterPOV(members) == "h-" \o Stringify(SortIds(members))

\* what checkNodeHealth learns from one node on one layer
ViewKinds ==
  {[reachable |-> FALSE, cluster |-> <<>>]}
    \cup {[reachable |-> TRUE, cluster |-> m] : m \in MemberLists}

\* the LayerHealth pollDirectly records: the cluster size, no clusterHash
DirectLayerHealth(view) ==
  [present |-> TRUE, reachable |-> view.reachable,
   state |-> IF view.reachable THEN "Ready" ELSE "Unreachable",
   ordinal |-> IF view.reachable THEN 100 ELSE -1,
   clusterSize |-> Len(view.cluster), clusterHash |-> ""]

\* the LayerHealth transformRedisNodes yields from a payload that carries
\* the membership hash of the same view
CacheLayerHealth(view) ==
  IF view.reachable
  THEN [DirectLayerHealth(view) EXCEPT !.clusterHash = hashClusterPOV(view.cluster)]
  ELSE DirectLayerHealth(view)

DirectSnapshot(vs, layer) ==
  [nodes |-> [i \in 1..Len(vs) |->
     [ip |-> i,
      layers |-> [l \in Range(ALL_LAYERS) |->
                    IF l = layer THEN DirectLayerHealth(vs[i])
                    ELSE ReadyHealth("", Len(vs))]]]]

CacheSnapshot(vs, layer) ==
  [nodes |-> [i \in 1..Len(vs) |->
     [ip |-> i,
      layers |-> [l \in Range(ALL_LAYERS) |->
                    IF l = layer THEN CacheLayerHealth(vs[i])
                    ELSE ReadyHealth("aaa", Len(vs))]]]]

SourceInit ==
  /\ views \in [1..NodeCount -> ViewKinds]
  /\ forkLayer \in Range(METAGRAPH_LAYERS)
  /\ povs = <<>>
  /\ forkNodes = NodeCount
  /\ forkSnap = DirectSnapshot(views, forkLayer)
  /\ forkOut = [pc |-> "input"]
  /\ stallPrev = NoStallPrev
  /\ reader = NoReader
  /\ PublisherIdle
  /\ MainIdle

SourceApply ==
  /\ forkOut.pc = "input"
  /\ forkOut' = [pc |-> "done",
                 direct |-> detectForkedClusterFromSnapshot(forkNodes, forkSnap),
                 cache |-> detectForkedClusterFromSnapshot(
                             forkNodes, CacheSnapshot(views, forkLayer))]
  /\ UNCHANGED <<povs, forkNodes, forkSnap, forkLayer, mainVars, auxVars>>

SourceNext == SourceApply

SpecSource == SourceInit /\ [][SourceNext]_vars

\* C12: fork detection gives the same result for a direct-polling snapshot
\* as for a cache snapshot that carries the membership hashes of the same
\* cluster views; reachable nodes with different member sets are told apart.
C12_SourceAgnostic ==
  forkOut.pc = "done" =>
    /\ forkOut.direct.detected = forkOut.cache.detected
    /\ forkOut.direct.affectedNodes = forkOut.cache.affectedNodes
    /\ forkOut.direct.restartScope = forkOut.cache.restartScope

\* ------------------------------------------------------------------------
\* Stall specification: successive calls of
\* detectSnapshotsStoppedFromSnapshot on one StallTracker
\* ------------------------------------------------------------------------

StallNodes == 2
MaxOrdinal == 1
MaxStallTime == 5
MaxTickMinutes == 2

\* SNAPSHOT_STALL_MINUTES as int() reads it: unset gives the default, "0" gives 0
StallThresholds == {0, DefaultStallMinutes}

\* what one node reports on ml0: not reachable, reachable without a
\* snapshot ordinal (-1), or reachable with an ordinal
Observations ==
  {[reachable |-> FALSE, ordinal |-> -1], [reachable |-> FALSE, ordinal |-> 0]}
    \cup {[reachable |-> TRUE, ordinal |-> o] : o \in -1..MaxOrdinal}

ObservedHealth(o) ==
  IF o.reachable
  THEN [ReadyHealth("aaa", StallNodes) EXCEPT !.ordinal = o.ordinal]
  ELSE [DownHealth EXCEPT !.ordinal = o.ordinal]

StallSnapshot(obs) ==
  [nodes |-> [i \in 1..Len(obs) |->
     [ip |-> i,
      layers |-> [l \in Range(ALL_LAYERS) |->
                    IF l = "ml0" THEN ObservedHealth(obs[i])
                    ELSE ReadyHealth("aaa", StallNodes)]]]]

StallInit ==
  /\ config \in {[DefaultConfig(FALSE) EXCEPT !.nodes = StallNodes,
                                              !.snapshotStallMinutes = t] :
                   t \in StallThresholds}
  /\ now = 0
  /\ stallTracker = [n \in 1..StallNodes |-> NoState]
  /\ snapshot = NoSnapshot
  /\ result = NotDetected("", "")
  /\ stallPrev = NoStallPrev
  /\ views = <<>>
  /\ reader = NoReader
  /\ PublisherIdle
  /\ ForkIdle
  /\ world = [name |-> "healthy", advancing |-> TRUE]
  /\ ml0Ordinal = 0
  /\ restartHistory = <<>>
  /\ pc = "exited"
  /\ cond = 0
  /\ event = NoEvent
  /\ rs = NoRs
  /\ cmds = NoCmds
  /\ ret = "none"
  /\ shutdown = "none"
  /\ faults = 0
  /\ call = NoCall
  /\ cycle = NoCycle

\* one check cycle's stall detection on a fresh snapshot, then the wait
\* until the next one
StallTick ==
  /\ now <= MaxStallTime
  /\ \E obs \in [1..StallNodes -> Observations], dt \in 1..MaxTickMinutes :
       LET snap == StallSnapshot(obs)
           out == detectSnapshotsStoppedFromSnapshot(config, snap, stallTracker, now)
       IN /\ snapshot' = snap
          /\ result' = out.result
          /\ stallTracker' = out.tracker
          /\ stallPrev' = [called |-> TRUE, tracker |-> stallTracker, clock |-> now]
          /\ now' = now + dt
  /\ UNCHANGED <<forkVars, views, reader, publisher, sink, config, world, ml0Ordinal,
                 restartHistory, pc, cond, event, rs, cmds, ret, shutdown, faults, call, cycle>>

StallNext == StallTick

SpecStall == StallInit /\ [][StallNext]_vars

\* ------------------------------------------------------------------------
\* Properties of the stall detector
\* ------------------------------------------------------------------------

StallCalled == stallPrev.called

\* node i of the last snapshot answers on ml0 with an ordinal
Answering(i) ==
  /\ snapshot.nodes[i].layers["ml0"].reachable
  /\ snapshot.nodes[i].layers["ml0"].ordinal >= 0

HasSelected == StallCalled /\ \E i \in 1..StallNodes : Answering(i)

SelectedNode ==
  CHOOSE i \in 1..StallNodes : Answering(i) /\ \A j \in 1..(i - 1) : ~Answering(j)

ObservedOrdinal == snapshot.nodes[SelectedNode].layers["ml0"].ordinal

\* the selected node's tracker entry as the call found it
PrevEntry == stallPrev.tracker[SelectedNode]

OrdinalUnchanged == HasSelected /\ PrevEntry.tracked /\ ObservedOrdinal = PrevEntry.ordinal

ElapsedAtCall == stallPrev.clock - PrevEntry.timestamp

StallReported ==
  /\ result.detected
  /\ result.condition = "SnapshotsStopped"
  /\ result.restartScope = "full-metagraph"
  /\ result.affectedLayers = <<"ml0", "cl1", "dl1">>
  /\ result.affectedNodes = [i \in 1..config.nodes |-> i]

NoStallReported == ~result.detected /\ result.restartScope = "none"

LongFrozen ==
  \E n \in 1..StallNodes :
    /\ stallPrev.tracker[n].tracked
    /\ stallPrev.clock - stallPrev.tracker[n].timestamp >= config.snapshotStallMinutes

\* C14: when no node of the snapshot is reachable on ml0 with a
\* non-negative ordinal, the detector returns not detected, scope none,
\* details 'ML0 unreachable', and leaves every tracker entry unchanged.
C14_UnreachableIsNotAStall ==
  (StallCalled /\ ~HasSelected) =>
    /\ ~result.detected
    /\ result.restartScope = "none"
    /\ result.details = "ML0 unreachable"
    /\ stallTracker = stallPrev.tracker

C14_Witness ==
  /\ StallCalled /\ ~HasSelected
  /\ LongFrozen
  /\ config.snapshotStallMinutes = DefaultStallMinutes
  /\ \E i \in 1..StallNodes : snapshot.nodes[i].layers["ml0"].reachable
  /\ result.details = "ML0 unreachable"

\* the selected node's tracker entry as the call left it
NewEntry == stallTracker[SelectedNode]

\* C15: for the key the call observed: while the ordinal is identical the
\* recorded timestamp is not modified, so the elapsed time at the next tick
\* is strictly larger than at this one; a higher ordinal resets the elapsed
\* time to zero; the recorded ordinal is the last observed one.
C15_TrackerHistory ==
  HasSelected =>
    /\ NewEntry.tracked
    /\ NewEntry.ordinal = ObservedOrdinal
    /\ OrdinalUnchanged =>
         /\ NewEntry.timestamp = PrevEntry.timestamp
         /\ now - NewEntry.timestamp > stallPrev.clock - PrevEntry.timestamp
    /\ (PrevEntry.tracked /\ ObservedOrdinal > PrevEntry.ordinal) =>
         stallPrev.clock - NewEntry.timestamp = 0

C15_Witness ==
  /\ OrdinalUnchanged
  /\ PrevEntry.timestamp < stallPrev.clock
  /\ NewEntry.timestamp = PrevEntry.timestamp
  /\ ObservedOrdinal > 0

OrdinalDiffers == HasSelected /\ (~PrevEntry.tracked \/ ObservedOrdinal # PrevEntry.ordinal)

\* C16: whenever the observed ordinal differs from the recorded one (higher
\* or lower), or the key is observed for the first time, the timestamp is
\* reset to the current time and no stall is reported in that cycle,
\* whatever the configured threshold.
C16_ChangeIsNeverAStall ==
  OrdinalDiffers =>
    /\ NewEntry.timestamp = stallPrev.clock
    /\ NoStallReported

\* C17: the first node in snapshot order that is reachable on ml0 with an
\* ordinal >= 0 is the one read and updated; every other node's entry is
\* unchanged, and the outcome is computed from the selected node's own
\* previously recorded ordinal and timestamp.
C17_FirstReachableOwnHistory ==
  HasSelected =>
    /\ \A n \in 1..StallNodes : n # SelectedNode => stallTracker[n] = stallPrev.tracker[n]
    /\ NewEntry.ordinal = ObservedOrdinal
    /\ result.detected <=>
         /\ PrevEntry.tracked
         /\ ObservedOrdinal <= PrevEntry.ordinal
         /\ stallPrev.clock - NewEntry.timestamp >= config.snapshotStallMinutes

\* a later node holds a higher ordinal and another history than the
\* selected one, which is stalled on its own record
C17_Witness ==
  /\ HasSelected
  /\ SelectedNode = 1
  /\ Answering(2)
  /\ snapshot.nodes[2].layers["ml0"].ordinal > ObservedOrdinal
  /\ stallPrev.tracker[2].tracked
  /\ stallPrev.tracker[2].timestamp > PrevEntry.timestamp
  /\ config.snapshotStallMinutes = DefaultStallMinutes
  /\ result.detected

\* ------------------------------------------------------------------------
\* Unhealthy specification: detectUnhealthyNodesFromSnapshot on snapshots
\* of every healthy / unhealthy pattern
\* ------------------------------------------------------------------------

\* states a reachable node reports that are not in STUCK_STATE_SET
GoodStates == {"Ready", "Observing"}

\* the ways a layer record makes its node unhealthy
BadKinds == {"absent", "down", "WaitingForDownload", "Leaving", "Offline",
             "DownloadInProgress", "Unreachable"}

BadHealth(kind) ==
  CASE kind = "absent" -> NoLayerHealth
    [] kind = "down" -> DownHealth
    [] OTHER -> [ReadyHealth("aaa", NodeCount) EXCEPT !.state = kind]

GoodHealth(state) == [ReadyHealth("aaa", NodeCount) EXCEPT !.state = state]

\* snapshots of one to NodeCount nodes
SnapshotSizes == 1..NodeCount

MaskSnapshot(size, mask, bad, good) ==
  [nodes |-> [i \in 1..size |->
     [ip |-> i,
      layers |-> [l \in Range(ALL_LAYERS) |->
                    IF mask[i][l] THEN BadHealth(bad) ELSE GoodHealth(good)]]]]

UnhealthyInit ==
  /\ \E size \in SnapshotSizes, bad \in BadKinds, good \in GoodStates :
       \E mask \in [1..size -> [Range(ALL_LAYERS) -> BOOLEAN]] :
         snapshot = MaskSnapshot(size, mask, bad, good)
  /\ config = DefaultConfig(FALSE)
  /\ pc = "input"
  /\ result = NotDetected("", "")
  /\ now = 0
  /\ stallTracker = [n \in 1..NodeCount |-> NoState]
  /\ AuxIdle
  /\ ForkIdle
  /\ world = [name |-> "healthy", advancing |-> TRUE]
  /\ ml0Ordinal = 0
  /\ restartHistory = <<>>
  /\ cond = 0
  /\ event = NoEvent
  /\ rs = NoRs
  /\ cmds = NoCmds
  /\ ret = "none"
  /\ shutdown = "none"
  /\ faults = 0
  /\ call = NoCall
  /\ cycle = NoCycle

UnhealthyApply ==
  /\ pc = "input"
  /\ result' = detectUnhealthyNodesFromSnapshot(config, snapshot)
  /\ pc' = "done"
  /\ UNCHANGED <<forkVars, auxVars, config, now, world, ml0Ordinal, restartHistory,
                 stallTracker, snapshot, cond, event, rs, cmds, ret, shutdown, faults,
                 call, cycle>>

UnhealthyNext == UnhealthyApply

SpecUnhealthy == UnhealthyInit /\ [][UnhealthyNext]_vars

\* ------------------------------------------------------------------------
\* Properties of the unhealthy-node detector
\* ------------------------------------------------------------------------

UnhealthyDone == pc = "done"

KnownBadStates == {"WaitingForDownload", "Leaving", "Offline", "DownloadInProgress",
                   "Unreachable"}

\* node i of the snapshot is unreachable on layer l or reports a known-bad state
UnhealthyAt(i, l) ==
  \/ ~snapshot.nodes[i].layers[l].reachable
  \/ snapshot.nodes[i].layers[l].state \in KnownBadStates

UnhealthyNodesOn(l) == {i \in 1..Len(snapshot.nodes) : UnhealthyAt(i, l)}

EveryNodeOn(l) == Cardinality(UnhealthyNodesOn(l)) = config.nodes

AllConfigured == [i \in 1..config.nodes |-> i]

FullyDownReport(scope, layers) ==
  /\ result.detected
  /\ result.restartScope = scope
  /\ result.affectedLayers = layers
  /\ result.affectedNodes = AllConfigured

IndividualReport ==
  /\ result.detected
  /\ result.restartScope = "individual-node"
  /\ Range(result.affectedNodes) = UNION {UnhealthyNodesOn(l) : l \in Range(ALL_LAYERS)}
  /\ Len(result.affectedNodes) = Cardinality(Range(result.affectedNodes))
  /\ result.affectedLayers = SelectSeq(ALL_LAYERS, LAMBDA l : UnhealthyNodesOn(l) # {})

AnyUnhealthy == \E l \in Range(ALL_LAYERS) : UnhealthyNodesOn(l) # {}

\* C18: the scope follows the priority gl0 fully down (full-metagraph, all
\* four layers), else ml0 fully down (full-metagraph, ml0 cl1 dl1), else
\* cl1 or dl1 fully down (full-layer, that layer), else individual-node
\* with the union of unhealthy nodes and the layers having one; fully down
\* means the unhealthy count equals the configured node count.
C18_ScopePriority ==
  (UnhealthyDone /\ AnyUnhealthy) =>
    IF EveryNodeOn("gl0") THEN FullyDownReport("full-metagraph", <<"gl0", "ml0", "cl1", "dl1">>)
    ELSE IF EveryNodeOn("ml0") THEN FullyDownReport("full-metagraph", <<"ml0", "cl1", "dl1">>)
    ELSE IF EveryNodeOn("cl1") THEN FullyDownReport("full-layer", <<"cl1">>)
    ELSE IF EveryNodeOn("dl1") THEN FullyDownReport("full-layer", <<"dl1">>)
    ELSE IndividualReport

C18_Witness ==
  /\ UnhealthyDone
  /\ UnhealthyNodesOn("gl0") # {} /\ ~EveryNodeOn("gl0")
  /\ EveryNodeOn("ml0") /\ EveryNodeOn("cl1")
  /\ result.restartScope = "full-metagraph"
  /\ result.affectedLayers = <<"ml0", "cl1", "dl1">>

\* C19: a layer whose unhealthy count equals the configured node count
\* never yields individual-node: the scope is full-layer or full-metagraph.
C19_EscalationMonotonic ==
  UnhealthyDone =>
    \A l \in Range(ALL_LAYERS) :
      EveryNodeOn(l) => result.restartScope \in {"full-layer", "full-metagraph"}

C19_Witness ==
  /\ UnhealthyDone
  /\ EveryNodeOn("dl1")
  /\ UnhealthyNodesOn("gl0") # {} /\ UnhealthyNodesOn("ml0") # {}
  /\ ~EveryNodeOn("gl0") /\ ~EveryNodeOn("ml0") /\ ~EveryNodeOn("cl1")
  /\ result.restartScope = "full-layer"

SmallStaleSeconds == 2
MaxClock == 3
MaxDeviating == 1

\* the Config a HealthReader is built with
ReaderConfig(url) ==
  [nodes |-> NodeCount, redisUrl |-> url, healthDataStaleSeconds |-> SmallStaleSeconds]

\* what redis.get(HEALTH_KEY) can find: nothing, text JSON.parse rejects,
\* a record without a timestamp, a record whose nodes cannot be
\* transformed, or a well-formed record
NoRecord == [kind |-> "missing", ts |-> 0]

Records ==
  {NoRecord, [kind |-> "garbage", ts |-> 0], [kind |-> "notime", ts |-> 0]}
    \cup {[kind |-> k, ts |-> t] : k \in {"ok", "badshape"}, t \in 0..MaxClock}

\* ageSeconds < healthDataStaleSeconds with a record older than the threshold allowed in
IsFreshInclusive(ageSeconds, staleSeconds) == ageSeconds <= staleSeconds

\* ageSeconds < this.config.healthDataStaleSeconds
IsFresh(ageSeconds, staleSeconds) == ageSeconds < staleSeconds

\* the payload nodes of a well-formed record, after transformRedisNodes
transformRedisNodes ==
  [i \in 1..NodeCount |->
     [ip |-> i, layers |-> [l \in Range(ALL_LAYERS) |-> ReadyHealth("aaa", NodeCount)]]]

\* a direct record that leaves out the nodes that do not answer
PolledHealthSkipDown(answers) ==
  IF answers THEN ReadyHealth("", NodeCount) ELSE NoLayerHealth

\* the record pollDirectly pushes for what checkNodeHealth returns
PolledHealth(answers) ==
  IF answers THEN ReadyHealth("", NodeCount) ELSE DownHealth

\* how a node answers on the four layers
ReachPatterns ==
  {[l \in Range(ALL_LAYERS) |-> TRUE], [l \in Range(ALL_LAYERS) |-> FALSE],
   [l \in Range(ALL_LAYERS) |-> l # "ml0"]}

\* the answers of one poll: at most MaxDeviating nodes differ from a node
\* that answers everywhere, or no node answers at all
ReachChoices ==
  {r \in [1..NodeCount -> ReachPatterns] :
     \/ Cardinality({i \in 1..NodeCount : \E l \in Range(ALL_LAYERS) : ~r[i][l]}) <= MaxDeviating
     \/ \A i \in 1..NodeCount, l \in Range(ALL_LAYERS) : ~r[i][l]}

pollDirectly(cfg, reach) ==
  [source |-> "direct", stale |-> FALSE,
   nodes |-> [i \in 1..cfg.nodes |->
                [ip |-> i,
                 layers |-> [l \in Range(ALL_LAYERS) |-> PolledHealth(reach[i][l])]]]]

\* the cache branch of getHealthSnapshot: the snapshot it returns, or
\* "fallthrough" when it leaves the branch
CacheBranch(cfg, record, getFails, clock) ==
  IF getFails THEN "fallthrough"
  ELSE IF record.kind = "missing" THEN "fallthrough"
  ELSE IF record.kind = "garbage" THEN "fallthrough"
  ELSE IF record.kind = "notime" THEN "fallthrough"
  ELSE IF ~IsFresh(clock - record.ts, cfg.healthDataStaleSeconds) THEN "fallthrough"
  ELSE IF record.kind = "badshape" THEN "fallthrough"
  ELSE "redis"

getHealthSnapshot(cfg, rd, getFails, reach, clock) ==
  IF rd.redis /\ rd.redisAvailable
       /\ CacheBranch(cfg, rd.store, getFails, clock) = "redis"
  THEN [source |-> "redis", stale |-> FALSE, nodes |-> transformRedisNodes]
  ELSE pollDirectly(cfg, reach)

NoLastCall == [made |-> FALSE]

\* the constructor: no URL, a client that cannot be built, or a lazy client
NewReader(client, available) ==
  [constructed |-> TRUE, redis |-> client, redisAvailable |-> available,
   conn |-> "idle", everDown |-> FALSE, store |-> NoRecord, last |-> NoLastCall]

ReaderInit ==
  /\ \E url \in BOOLEAN, built \in BOOLEAN :
       /\ config = ReaderConfig(url)
       /\ reader = IF ~url THEN NewReader(FALSE, FALSE)
                   ELSE IF ~built THEN NewReader(FALSE, FALSE)
                   ELSE NewReader(TRUE, TRUE)
  /\ now = 0
  /\ snapshot = NoSnapshot
  /\ views = <<>>
  /\ stallPrev = NoStallPrev
  /\ PublisherIdle
  /\ ForkIdle
  /\ world = [name |-> "healthy", advancing |-> TRUE]
  /\ ml0Ordinal = 0
  /\ restartHistory = <<>>
  /\ stallTracker = [n \in 1..NodeCount |-> NoState]
  /\ pc = "exited"
  /\ cond = 0
  /\ result = NotDetected("", "")
  /\ event = NoEvent
  /\ rs = NoRs
  /\ cmds = NoCmds
  /\ ret = "none"
  /\ shutdown = "none"
  /\ faults = 0
  /\ call = NoCall
  /\ cycle = NoCycle

readerFrame ==
  <<forkVars, views, stallPrev, publisher, sink, config, world, ml0Ordinal, restartHistory,
    stallTracker, pc, cond, result, event, rs, cmds, ret, shutdown, faults, call, cycle>>

\* the handler of the client's 'error' event
OnError(rd) == [rd EXCEPT !.redisAvailable = FALSE, !.conn = "down", !.everDown = TRUE]

\* a 'connect' handler that leaves the flag alone
OnConnectKeep(rd) == [rd EXCEPT !.conn = "up"]

\* the handler of the client's 'connect' event
OnConnect(rd) == [rd EXCEPT !.redisAvailable = TRUE, !.conn = "up"]

RedisError ==
  /\ reader.redis
  /\ reader.conn # "down"
  /\ reader' = OnError(reader)
  /\ UNCHANGED <<readerFrame, now, snapshot>>

RedisConnect ==
  /\ reader.redis
  /\ reader.conn # "up"
  /\ reader' = OnConnect(reader)
  /\ UNCHANGED <<readerFrame, now, snapshot>>

\* the services monitor writes, overwrites or loses the cached record
MonitorWrite ==
  /\ \E r \in Records :
       /\ r.ts <= now
       /\ r # reader.store
       /\ reader' = [reader EXCEPT !.store = r]
  /\ UNCHANGED <<readerFrame, now, snapshot>>

ClockTick ==
  /\ now < MaxClock
  /\ now' = now + 1
  /\ UNCHANGED <<readerFrame, reader, snapshot>>

GetHealthSnapshot ==
  /\ \E getFails \in BOOLEAN, reach \in ReachChoices :
       /\ snapshot' = getHealthSnapshot(config, reader, getFails, reach, now)
       /\ reader' = [reader EXCEPT !.last =
                       [made |-> TRUE,
                        readCache |-> reader.redis /\ reader.redisAvailable,
                        flagDown |-> ~reader.redisAvailable,
                        getFails |-> getFails, record |-> reader.store,
                        conn |-> reader.conn, clock |-> now,
                        polled |-> IF snapshot'.source = "direct" THEN reach
                                   ELSE [i \in 1..NodeCount |->
                                           [l \in Range(ALL_LAYERS) |-> TRUE]]]]
  /\ UNCHANGED <<readerFrame, now>>

ReaderNext == RedisError \/ RedisConnect \/ MonitorWrite \/ ClockTick \/ GetHealthSnapshot

SpecReader == ReaderInit /\ [][ReaderNext]_vars

\* ------------------------------------------------------------------------
\* Properties of the health reader
\* ------------------------------------------------------------------------

LastCall == reader.last

CallMade == reader.constructed /\ reader.last.made

\* the call could read the cache: client present, flag clear, GET answered
BackendUsable == LastCall.readCache /\ ~LastCall.getFails

\* the record was there, well-formed and younger than the threshold
RecordUsable ==
  /\ LastCall.record.kind = "ok"
  /\ LastCall.clock - LastCall.record.ts < config.healthDataStaleSeconds

C22_AcquisitionNeverFails ==
  CallMade =>
    /\ snapshot.source \in {"redis", "direct"}
    /\ (~BackendUsable \/ LastCall.record.kind # "ok") => snapshot.source = "direct"
    /\ snapshot.source = "direct" =>
         /\ Len(snapshot.nodes) = config.nodes
         /\ \A i \in 1..config.nodes :
              /\ snapshot.nodes[i].ip = i
              /\ \A l \in Range(ALL_LAYERS) :
                   /\ snapshot.nodes[i].layers[l].present
                   /\ snapshot.nodes[i].layers[l].reachable = LastCall.polled[i][l]

C22_Witness ==
  /\ CallMade
  /\ LastCall.readCache /\ LastCall.getFails
  /\ snapshot.source = "direct"
  /\ \A i \in 1..config.nodes : ~snapshot.nodes[i].layers["ml0"].reachable

\* C23: a connection failure sets the backend-down flag; a call made while
\* it is set does not read the cache and returns a direct snapshot; once
\* the connection is established again the flag is clear, and a call made
\* then reads the cache.
C23_BackendFlag ==
  reader.constructed =>
    /\ reader.conn = "down" => ~reader.redisAvailable
    /\ reader.conn = "up" => reader.redisAvailable
    /\ reader.last.made =>
         /\ LastCall.flagDown => (~LastCall.readCache /\ snapshot.source = "direct")
         /\ LastCall.conn = "up" => LastCall.readCache

C23_Witness ==
  /\ CallMade
  /\ reader.everDown
  /\ LastCall.conn = "up"
  /\ LastCall.readCache
  /\ snapshot.source = "redis"

\* ------------------------------------------------------------------------
\* Restart specification: one admitted executeRestart call, for every
\* detection result the detectors can hand it, run to its return
\* ------------------------------------------------------------------------

MaxAffectedLayers == 2

\* affectedNodes lists: the non-empty sets of configured nodes, ascending
NodeLists ==
  {s \in SeqsUpTo(1..NodeCount, NodeCount) :
     Len(s) >= 1 /\ \A i \in 1..(Len(s) - 1) : s[i] < s[i + 1]}

LayerIndex(l) == CHOOSE k \in 1..Len(ALL_LAYERS) : ALL_LAYERS[k] = l

\* affectedLayers lists of the individual-node results: layers in the
\* order gl0, ml0, cl1, dl1
LayerLists ==
  {s \in SeqsUpTo(Range(ALL_LAYERS), MaxAffectedLayers) :
     Len(s) >= 1 /\ \A i \in 1..(Len(s) - 1) : LayerIndex(s[i]) < LayerIndex(s[i + 1])}

Detected(condition, scope, nodes, layers) ==
  [detected |-> TRUE, condition |-> condition, details |-> "", restartScope |-> scope,
   affectedNodes |-> nodes, affectedLayers |-> layers]

AllNodes == [i \in 1..NodeCount |-> i]

\* the detections executeRestart is called with
RestartResults ==
  {Detected("UnhealthyNodes", "individual-node", ns, ls) : ns \in NodeLists, ls \in LayerLists}
    \cup {Detected("ForkedCluster", "full-layer", AllNodes, <<l>>) :
            l \in Range(METAGRAPH_LAYERS)}
    \cup {StallDetected(NodeCount)}
    \cup {Detected("UnhealthyNodes", "full-metagraph", AllNodes, ALL_LAYERS)}

\* executeRestart has passed its checks and entered the try block
RestartInit ==
  /\ \E res \in RestartResults :
       /\ result = res
       /\ event = NewEvent(res, 0)
       /\ rs = [stack |-> StartProcedure(DefaultConfig(FALSE), res).stack, par |-> NoPar]
       /\ call = [made |-> TRUE, at |-> 0, history |-> <<>>, cmds |-> NoCmds,
                  scope |-> res.restartScope, verdict |-> "admit",
                  escalated |-> \E i \in 1..Len(rs.stack) : rs.stack[i].step = "escalated",
                  failed |-> FALSE]
       /\ views \in IF res.restartScope = "individual-node"
                    THEN [1..NodeCount -> BOOLEAN]
                    ELSE {[n \in 1..NodeCount |-> TRUE]}
  /\ config = DefaultConfig(FALSE)
  /\ pc = "restart"
  /\ now = 0
  /\ stallPrev = NoStallPrev
  /\ reader = NoReader
  /\ PublisherIdle
  /\ ForkIdle
  /\ world = [name |-> "healthy", advancing |-> TRUE]
  /\ ml0Ordinal = 0
  /\ restartHistory = <<>>
  /\ stallTracker = [n \in 1..NodeCount |-> NoState]
  /\ snapshot = NoSnapshot
  /\ cond = 1
  /\ cmds = NoCmds
  /\ ret = "none"
  /\ shutdown = "none"
  /\ faults = 0
  /\ cycle = NoCycle

\* the next awaited operation of the procedure on top of the call stack;
\* getNodeInfo on the reference node answers iff that node's endpoint does
RestartStepSeen ==
  /\ pc = "restart"
  /\ rs.par = NoPar
  /\ \E ok \in BOOLEAN, bad \in 1..config.nodes :
       LET f == Top(rs.stack)
       IN /\ (f.fn = "restartIndividualNodes" /\ f.step = "refInfo")
               => ok = views[HealthyNode(config, result)]
          /\ Proceed(CASE f.fn = "restartIndividualNodes" ->
                            IndStep(rs.stack, config, result, ok)
                       [] f.fn = "restartFullLayer" ->
                            FullLayerStep(rs.stack, config, result, ok, bad)
                       [] f.fn = "restartFullMetagraph" ->
                            FullMetagraphStep(rs.stack, config, result, ok, bad),
                     ok, "")

RestartNext == RestartStepSeen \/ RestartParallelStep

SpecRestart == RestartInit /\ [][RestartNext]_vars

\* ------------------------------------------------------------------------
\* Properties of the restart procedures
\* ------------------------------------------------------------------------

IndividualCall == call.made /\ call.scope = "individual-node"

\* configured nodes outside the affected set whose endpoint responds
ResponsiveReferences ==
  {n \in 1..config.nodes : n \notin Range(result.affectedNodes) /\ views[n]}

\* C24: the individual-node procedure escalates to full-layer only if no
\* configured node outside the affected set responds; if one exists it is
\* used as the reference and no escalation happens.
C24_EscalatesOnlyWithoutReference ==
  (IndividualCall /\ call.escalated) => ResponsiveReferences = {}

CallReturned == call.made /\ pc = "publish"

\* positions of the sequential log that hold operation op on (layer, node)
SeqAt(op, layer, node) ==
  {p \in 1..Len(cmds.seq) :
     cmds.seq[p].op = op /\ cmds.seq[p].layer = layer /\ cmds.seq[p].node = node}

\* node n of the layer was stopped, started, joined and polled, in that order
RestartedInPlace(layer, n) ==
  \E a \in SeqAt("stop", layer, n), b \in SeqAt("start", layer, n),
     c \in SeqAt("join", layer, n), d \in SeqAt("wait", layer, n) :
    a < b /\ b < c /\ c < d

\* the layer went through a procedure that stops it on every node
RestartedInFull(layer) ==
  \A n \in 1..config.nodes :
    \E p \in 1..Len(Issued(cmds)) :
      /\ Issued(cmds)[p].op = "stop"
      /\ Issued(cmds)[p].layer = layer
      /\ Issued(cmds)[p].node = n

LayerHandled(layer) ==
  \/ \A k \in 1..Len(result.affectedNodes) : RestartedInPlace(layer, result.affectedNodes[k])
  \/ RestartedInFull(layer)

\* C25: when the individual-node procedure returns without error, every
\* affected layer was handled: its affected nodes were stopped, started,
\* joined and polled in that order, or the layer was escalated; an
\* escalation on one layer does not leave later layers unprocessed.
C25_EveryAffectedLayerHandled ==
  (IndividualCall /\ CallReturned /\ ret = "true") =>
    \A k \in 1..Len(result.affectedLayers) : LayerHandled(result.affectedLayers[k])

DependentLayers == {"cl1", "dl1"}

\* the operations a restartFullLayer call for a dependent layer has issued
\* so far: as one of the two concurrent calls of restartFullMetagraph, as
\* the procedure of a full-layer detection, or as an escalation in flight
FullLayerLog(l) ==
  LET own == SelectSeq(cmds.seq, LAMBDA c : c.layer = l)
  IN IF cmds.par[l] # <<>> THEN cmds.par[l]
     ELSE IF call.made /\ call.scope = "full-layer" /\ result.affectedLayers = <<l>> THEN own
     ELSE IF /\ IndividualCall
             /\ \E i \in 1..Len(rs.stack) :
                  /\ rs.stack[i].fn = "restartIndividualNodes"
                  /\ rs.stack[i].step = "escalated"
                  /\ rs.stack[i].layer = l
     THEN IF own # <<>> /\ own[1].op = "info" THEN Tail(own) ELSE own
     ELSE <<>>

Before(X, p, op, node) ==
  \E q \in 1..(p - 1) : X[q].op = op /\ X[q].node = node /\ X[q].ok

FullLayerOrdered(X, nodeCount) ==
  \A p \in 1..Len(X) :
    /\ X[p].op = "start" =>
         /\ \A m \in 1..nodeCount : Before(X, p, "stop", m)
         /\ (\A q \in 1..(p - 1) : X[q].op # "start") => X[p].node = 1
         /\ X[p].node > 1 =>
              /\ Before(X, p, "wait", 1)
              /\ Before(X, p, "info", 1)
              /\ X[p - 1].ok
              /\ IF X[p].node = 2 THEN X[p - 1].op = "info"
                 ELSE X[p - 1].op = "join" /\ X[p - 1].node = X[p].node - 1
    /\ X[p].op = "join" =>
         /\ X[p].node # 1
         /\ X[p - 1].op = "start" /\ X[p - 1].node = X[p].node /\ X[p - 1].ok
    /\ (X[p].op = "wait" /\ \E q \in 1..(p - 1) : X[q].op = "wait") =>
         \A n \in 2..nodeCount : Before(X, p, "join", n)

\* C26: restartFullLayer for cl1 or dl1 stops the layer on every node
\* before any start; starts node 0 first, without a join; starts another
\* node only after node 0 reported Ready and its identity was fetched;
\* starts and joins the others one at a time in index order; and polls
\* all nodes for ready only afterwards.
C26_FullLayerOrder ==
  \A l \in DependentLayers : FullLayerOrdered(FullLayerLog(l), config.nodes)

C26_Witness ==
  /\ CallReturned
  /\ call.scope = "full-layer"
  /\ result.affectedLayers = <<"cl1">>
  /\ ret = "true"
  /\ Len(FullLayerLog("cl1")) = 4 * config.nodes + 1

\* the positions of the sequential log before which every layer of the
\* metagraph was stopped on every node, dl1 first, then cl1, then ml0
AfterAllStops(p) ==
  \A n \in 1..config.nodes :
    \E a, b, c \in 1..(p - 1) :
      /\ a < b /\ b < c
      /\ cmds.seq[a].op = "stop" /\ cmds.seq[a].layer = "dl1" /\ cmds.seq[a].node = n
      /\ cmds.seq[b].op = "stop" /\ cmds.seq[b].layer = "cl1" /\ cmds.seq[b].node = n
      /\ cmds.seq[c].op = "stop" /\ cmds.seq[c].layer = "ml0" /\ cmds.seq[c].node = n

\* restartFullLayer was called for ml0: by a full-layer detection on ml0 or
\* by an escalation of the individual-node procedure on ml0
FullLayerOnMl0 ==
  \/ call.made /\ call.scope = "full-layer" /\ result.affectedLayers = <<"ml0">>
  \/ /\ IndividualCall
     /\ \E i \in 1..Len(rs.stack) :
          /\ rs.stack[i].fn = "restartIndividualNodes"
          /\ rs.stack[i].step = "escalated"
          /\ rs.stack[i].layer = "ml0"

\* C27: restartFullLayer for ml0 hands over to the full-metagraph
\* procedure and never restarts ml0 alone, whether it was requested by a
\* full-layer detection or by an escalation of the individual-node procedure.
C27_Ml0MeansFullMetagraph ==
  /\ \A i \in 1..Len(rs.stack) :
       (rs.stack[i].fn = "restartFullLayer" /\ rs.stack[i].layer = "ml0") =>
         /\ rs.stack[i].step = "escalated"
         /\ i < Len(rs.stack)
         /\ rs.stack[i + 1].fn = "restartFullMetagraph"
  /\ FullLayerOnMl0 =>
       /\ \A p \in 1..Len(cmds.seq) :
            (cmds.seq[p].op = "start" /\ cmds.seq[p].layer = "ml0") => AfterAllStops(p)
       /\ (CallReturned /\ ret = "true") =>
            \A l \in DependentLayers : cmds.par[l] # <<>>

C27_Witness ==
  /\ IndividualCall
  /\ FullLayerOnMl0
  /\ \E p \in 1..Len(cmds.seq) : cmds.seq[p].op = "start" /\ cmds.seq[p].layer = "ml0"
  /\ \E p \in 1..Len(cmds.par["cl1"]) : cmds.par["cl1"][p].op = "start"

FullMetagraphCall == call.made /\ call.scope = "full-metagraph"

ReverseDependencyOrder == <<"dl1", "cl1", "ml0">>

\* the number of stop commands that open the full-metagraph procedure
StopCount == Len(ReverseDependencyOrder) * config.nodes

\* C28: the full-metagraph procedure stops dl1, then cl1, then ml0, each on
\* all nodes; a stop that fails is swallowed and does not abort the
\* procedure; and no container is started before the stops of all three
\* layers have completed.
C28_StopsInReverseOrder ==
  FullMetagraphCall =>
    /\ \A p \in 1..Len(cmds.seq) :
         IF p <= StopCount
         THEN /\ cmds.seq[p].op = "stop"
              /\ cmds.seq[p].layer = ReverseDependencyOrder[((p - 1) \div config.nodes) + 1]
              /\ cmds.seq[p].node = ((p - 1) % config.nodes) + 1
         ELSE cmds.seq[p].op # "stop"
    /\ Len(cmds.seq) <= StopCount => (pc = "restart" /\ ~call.failed)
    /\ \A l \in DependentLayers : cmds.par[l] # <<>> => Len(cmds.seq) > StopCount

\* a stop failed and the procedure went on to start ml0
C28_Witness ==
  /\ FullMetagraphCall
  /\ \E p \in 1..StopCount : p <= Len(cmds.seq) /\ ~cmds.seq[p].ok
  /\ \E p \in 1..Len(cmds.seq) : cmds.seq[p].op = "start" /\ cmds.seq[p].layer = "ml0"

\* a container of cl1 or dl1 was started by the procedure
DependentStarted ==
  \E l \in DependentLayers : \E p \in 1..Len(cmds.par[l]) : cmds.par[l][p].op = "start"

\* node n reported Ready on ml0 to a waitForReady of the procedure
Ml0ReportedReady(n) ==
  \E p \in 1..Len(cmds.seq) :
    /\ cmds.seq[p].op = "wait" /\ cmds.seq[p].layer = "ml0"
    /\ cmds.seq[p].node = n /\ cmds.seq[p].ok

\* C29: in the full-metagraph procedure cl1 and dl1 are restarted only
\* once the ml0 genesis and every other configured node reported Ready on
\* ml0; if the ml0 cluster does not become ready no cl1 or dl1 container
\* is started.
C29_L1AfterMl0Ready ==
  (FullMetagraphCall /\ DependentStarted) =>
    \A n \in 1..config.nodes : Ml0ReportedReady(n)

\* a remote command of the call failed or a ready-wait of it timed out
SomeOperationFailed ==
  \E p \in 1..Len(Issued(cmds)) :
    /\ Issued(cmds)[p].op \in {"stop", "start", "join", "wait"}
    /\ ~Issued(cmds)[p].ok

\* C30: whenever a remote command fails or a ready-wait times out during a
\* restart procedure, executeRestart returns false and the history entry
\* has success=false with an error message, for every scope.
C30_FailureIsRecorded ==
  (CallReturned /\ call.verdict = "admit" /\ SomeOperationFailed) =>
    /\ ret = "false"
    /\ Len(restartHistory) > 0
    /\ ~restartHistory[Len(restartHistory)].success
    /\ restartHistory[Len(restartHistory)].error # ""

\* ------------------------------------------------------------------------
\* Loop specification: the control loop with an event sink that is
\* configured, detectors that may throw, a short stall threshold
\* ------------------------------------------------------------------------

\* a stall threshold set through the environment
SmallStallMinutes == 1
\* the loop is followed for MaxLoopMinutes; at most MaxThrows detectors throw
\* in one cycle
MaxLoopMinutes == 3
MaxThrows == 1

LoopConfigs ==
  {[DefaultConfig(d) EXCEPT !.snapshotStallMinutes = SmallStallMinutes] : d \in BOOLEAN}

LoopWorlds ==
  {[name |-> "healthy", advancing |-> FALSE],
   [name |-> "healthy", advancing |-> TRUE],
   [name |-> "forkOne", advancing |-> TRUE],
   [name |-> "downCl1", advancing |-> TRUE]}

LoopInit ==
  /\ ForkIdle
  /\ views = <<>>
  /\ stallPrev = NoStallPrev
  /\ reader = NoReader
  /\ publisher = NewPublisher(TRUE)
  /\ sink = {}
  /\ config \in LoopConfigs
  /\ world \in LoopWorlds
  /\ now = MaxTime - MaxLoopMinutes
  /\ ml0Ordinal = 0
  /\ restartHistory = <<>>
  /\ stallTracker = [n \in 1..NodeCount |-> NoState]
  /\ pc = "snapshot"
  /\ snapshot = NoSnapshot
  /\ cond = 0
  /\ result = NotDetected("", "")
  /\ event = NoEvent
  /\ rs = NoRs
  /\ cmds = NoCmds
  /\ ret = "none"
  /\ shutdown = "none"
  /\ faults = 0
  /\ call = NoCall
  /\ cycle = NoCycle

\* an error caught outside the loop over the conditions ends the cycle
OnConditionErrorEndsCycle(k) == [pc |-> IF config.daemon THEN "sleep" ELSE "exited", cond |-> 0]

\* catch (err) { log(...) } inside the loop: on to the next condition
OnConditionError(k) == AfterCondition(k, FALSE)

\* condition.detect() throws
ConditionThrows ==
  /\ Alive /\ pc = "detect"
  /\ Cardinality({i \in 1..Len(cycle.evaluated) : cycle.evaluated[i].threw}) < MaxThrows
  /\ cycle' = [cycle EXCEPT
                 !.evaluated = Append(@, [Evaluated(Conditions[cond], FALSE) EXCEPT
                                            !.threw = TRUE])]
  /\ pc' = OnConditionError(cond).pc
  /\ cond' = OnConditionError(cond).cond
  /\ UNCHANGED <<forkVars, auxVars, config, now, world, ml0Ordinal, restartHistory, stallTracker,
                 snapshot, result, event, rs, cmds, ret, shutdown, faults, call>>

\* the pool's 'error' event
PoolError ==
  /\ Alive
  /\ publisher.pool /\ publisher.postgresAvailable
  /\ publisher' = [publisher EXCEPT !.postgresAvailable = FALSE]
  /\ UNCHANGED <<forkVars, mainVars, views, stallPrev, reader, sink>>

LoopNext ==
  \/ Next
  \/ ConditionThrows
  \/ PoolError

SpecLoop == LoopInit /\ [][LoopNext]_vars

\* ------------------------------------------------------------------------
\* Properties of the control loop with its event sink
\* ------------------------------------------------------------------------

Refusals == {"cooldown", "rate-limit"}

\* C31: a restart refused by the cooldown or by the rate limit is reported
\* distinctly from a failure: the record emitted for a refused call is never
\* a RESTART_FAILED record, and no such record reaches the event sink.
C31_RefusalNotPublishedAsFailure ==
  \A i \in 1..Len(cycle.emitted) :
    LET e == cycle.emitted[i]
    IN e.verdict \in Refusals =>
         /\ e.record.eventType # "RESTART_FAILED"
         /\ ~(e.stored /\ e.record \in sink /\ ~e.record.success)

\* runHealthCheck has returned
CycleOver == pc \in {"sleep", "exited"} /\ cycle.evaluated # <<>>

RestartPerformed == \E i \in 1..Len(cycle.evaluated) : cycle.evaluated[i].restarted

SomeDetectorThrew == \E i \in 1..Len(cycle.evaluated) : cycle.evaluated[i].threw

SomeRecordLost == \E i \in 1..Len(cycle.emitted) : ~cycle.emitted[i].stored

\* C32: an exception raised while one condition is processed is caught at
\* that condition: unless a restart was performed, a cycle ends only after
\* every condition has been taken up, in order, whether or not a detector
\* threw and whether or not the event sink stored the records; every
\* detection of the cycle had its record handed to the publisher; in daemon
\* mode the loop never ends through an error.
C32_ErrorsStayAtTheirCondition ==
  /\ (CycleOver /\ ~RestartPerformed) =>
       /\ Len(cycle.evaluated) = Len(Conditions)
       /\ \A i \in 1..Len(Conditions) : cycle.evaluated[i].name = Conditions[i]
       /\ Len(cycle.emitted) =
            Cardinality({i \in 1..Len(cycle.evaluated) : cycle.evaluated[i].detected})
  /\ config.daemon => pc # "exited"

C32_Witness ==
  /\ CycleOver /\ ~RestartPerformed
  /\ config.daemon
  /\ cycle.evaluated[1].threw
  /\ SomeRecordLost
  /\ ~publisher.postgresAvailable

\* The event loop resumes runHealthCheck whenever the call it awaits has
\* settled, and every awaited call settles: fetchJson aborts after 5 s,
\* sshExec rejects after 30 s, waitForReady gives up after its timeout, the
\* cache read after commandTimeout.  Weak fairness of CheckCondition is
\* written out: the action is enabled exactly when the loop stands at a
\* condition, since each of its steps extends cycle.evaluated.
LiveInit ==
  /\ ForkIdle
  /\ AuxIdle
  /\ config \in LoopConfigs
  /\ world \in LoopWorlds
  /\ now = MaxTime - MaxLoopMinutes
  /\ ml0Ordinal = 0
  /\ restartHistory = <<>>
  /\ stallTracker = [n \in 1..NodeCount |-> NoState]
  /\ pc = "snapshot"
  /\ snapshot = NoSnapshot
  /\ cond = 0
  /\ result = NotDetected("", "")
  /\ event = NoEvent
  /\ rs = NoRs
  /\ cmds = NoCmds
  /\ ret = "none"
  /\ shutdown = "none"
  /\ faults = 0
  /\ call = NoCall
  /\ cycle = NoCycle

SpecLive ==
  /\ LiveInit /\ [][Next]_vars
  /\ WF_vars(GetSnapshot)
  /\ ([]<>~(Alive /\ pc = "detect") \/ []<><<CheckCondition>>_vars)
  /\ WF_vars(RestartStep)
  /\ WF_vars(RestartParallelStep)
  /\ WF_vars(PublishRestart)

\* runHealthCheck has returned or the process has left through its
\* shutdown handler
CycleEnded == pc \in {"sleep", "exited"} \/ shutdown = "exited"

SameMembers(a, b) == Range(a) = Range(b)

MsPerSecond == 1000
MaxTrackerClock == 2

TrackedLayers == <<"ml0", "cl1">>

\* StallTracker.key: `${nodeId}:${layer}`
key(nodeId, layer) == <<nodeId, layer>>

TrackerKeys == {key(n, l) : n \in 1..StallNodes, l \in Range(TrackedLayers)}

\* number | null
NullSecs == [isNull |-> TRUE, value |-> 0]

\* StallTracker.staleSecs
staleSecs(tracker, k, nowMs) ==
  LET s == tracker[k]
  IN IF ~s.tracked THEN NullSecs
     ELSE [isNull |-> FALSE, value |-> (nowMs - s.timestamp) \div MsPerSecond]

\* StallTracker.reset: this.state.clear()
TrackerReset(tracker) == [k \in DOMAIN tracker |-> NoState]

\* no call made yet on a new StallTracker
NoTrackerCall ==
  [called |-> FALSE, op |-> "new", key |-> key(1, "ml0"), ordinal |-> 0, advanced |-> FALSE,
   secs |-> NullSecs, updated |-> {}]

TrackerInit ==
  /\ stallTracker = [k \in TrackerKeys |-> NoState]
  /\ stallPrev = NoTrackerCall
  /\ now = 0
  /\ config = DefaultConfig(FALSE)
  /\ snapshot = NoSnapshot
  /\ result = NotDetected("", "")
  /\ views = <<>>
  /\ reader = NoReader
  /\ PublisherIdle
  /\ ForkIdle
  /\ world = [name |-> "healthy", advancing |-> TRUE]
  /\ ml0Ordinal = 0
  /\ restartHistory = <<>>
  /\ pc = "exited"
  /\ cond = 0
  /\ event = NoEvent
  /\ rs = NoRs
  /\ cmds = NoCmds
  /\ ret = "none"
  /\ shutdown = "none"
  /\ faults = 0
  /\ call = NoCall
  /\ cycle = NoCycle

trackerFrame ==
  <<forkVars, views, reader, publisher, sink, config, world, ml0Ordinal, restartHistory, pc,
    snapshot, cond, result, event, rs, cmds, ret, shutdown, faults, call, cycle>>

\* tracker.update(nodeId, layer, ordinal) at the current time
TrackerUpdateCall ==
  /\ \E k \in TrackerKeys, ordinal \in 0..MaxOrdinal :
       /\ stallTracker' = TrackerUpdate(stallTracker, k, ordinal, now * MsPerSecond)
       /\ stallPrev' = [called |-> TRUE, op |-> "update", key |-> k, ordinal |-> ordinal,
                        advanced |-> TrackerAdvanced(stallTracker, k, ordinal),
                        secs |-> NullSecs, updated |-> stallPrev.updated \cup {k}]
  /\ UNCHANGED <<trackerFrame, now>>

\* tracker.staleSecs(nodeId, layer) at the current time
StaleSecsCall ==
  /\ \E k \in TrackerKeys :
       stallPrev' = [called |-> TRUE, op |-> "staleSecs", key |-> k, ordinal |-> 0,
                     advanced |-> FALSE,
                     secs |-> staleSecs(stallTracker, k, now * MsPerSecond),
                     updated |-> stallPrev.updated]
  /\ UNCHANGED <<trackerFrame, now, stallTracker>>

\* tracker.reset()
TrackerResetCall ==
  /\ stallTracker' = TrackerReset(stallTracker)
  /\ stallPrev' = [NoTrackerCall EXCEPT !.called = TRUE, !.op = "reset"]
  /\ UNCHANGED <<trackerFrame, now>>

TrackerTick ==
  /\ now < MaxTrackerClock
  /\ now' = now + 1
  /\ UNCHANGED <<trackerFrame, stallTracker, stallPrev>>

TrackerNext == TrackerUpdateCall \/ StaleSecsCall \/ TrackerResetCall \/ TrackerTick

SpecTracker == TrackerInit /\ [][TrackerNext]_vars

\* ------------------------------------------------------------------------
\* Properties of the StallTracker
\* ------------------------------------------------------------------------

\* what an update call must return, given the tracker it was made on
UpdateReturnsAsSpecified(c, before, updatedBefore) ==
  c.advanced <=> (c.key \notin updatedBefore \/ c.ordinal > before[c.key].ordinal)

\* what a staleSecs call must return
StaleSecsAsSpecified(c, before, updatedBefore, nowMs) ==
  /\ c.secs.isNull <=> c.key \notin updatedBefore
  /\ ~c.secs.isNull => c.secs.value * MsPerSecond = nowMs - before[c.key].timestamp

TrackerCallAsSpecified ==
  LET c == stallPrev'
  IN /\ c.op = "update" =>
          /\ UpdateReturnsAsSpecified(c, stallTracker, stallPrev.updated)
          /\ \A k \in TrackerKeys \ {c.key} : stallTracker'[k] = stallTracker[k]
     /\ c.op = "staleSecs" =>
          /\ StaleSecsAsSpecified(c, stallTracker, stallPrev.updated, now * MsPerSecond)
          /\ stallTracker' = stallTracker
     /\ c.op = "reset" => c.updated = {}

\* C35: update returns true iff the key was never updated (since the last
\* reset) or the ordinal is greater than the recorded one, hence false for an
\* equal or lower ordinal; staleSecs returns null for a key never updated,
\* also after reset, and otherwise the milliseconds since the recorded
\* timestamp divided by 1000; an update leaves the entries of all other keys
\* as they were.
C35_TrackerContract == [][stallPrev' # stallPrev => TrackerCallAsSpecified]_vars

C35_Witness ==
  /\ stallPrev.op = "update"
  /\ ~stallPrev.advanced
  /\ stallTracker[stallPrev.key].ordinal < MaxOrdinal
  /\ stallTracker[stallPrev.key].timestamp = now * MsPerSecond
  /\ now > 0
  /\ \E k \in TrackerKeys \ {stallPrev.key} :
       stallTracker[k].tracked /\ stallTracker[k].timestamp < now * MsPerSecond
  /\ \E k \in TrackerKeys : ~stallTracker[k].tracked

\* ------------------------------------------------------------------------
\* Limiter specification: executeRestart called again and again over more
\* than an hour, the restart procedure reduced to the time it takes and to
\* its outcome
\* ------------------------------------------------------------------------

MaxLimiterTime == 65
\* the clock advances in steps of LimiterStepMinutes
LimiterStepMinutes == 5

\* cooldown and hourly maximum set through the environment, with
\* restartCooldownMinutes * maxRestartsPerHour >= 60
LimiterConfigs ==
  {[DefaultConfig(TRUE) EXCEPT !.restartCooldownMinutes = cm[1],
                               !.maxRestartsPerHour = cm[2]] :
     cm \in {<<DefaultCooldownMinutes, DefaultMaxRestartsPerHour>>,
             <<15, 4>>, <<20, 3>>, <<30, 2>>, <<20, 4>>}}

LimiterInit ==
  /\ config \in LimiterConfigs
  /\ now = 0
  /\ restartHistory = <<>>
  /\ result = StallDetected(NodeCount)
  /\ call = NoCall
  /\ event = NoEvent
  /\ ret = "none"
  /\ AuxIdle
  /\ ForkIdle
  /\ world = [name |-> "healthy", advancing |-> FALSE]
  /\ ml0Ordinal = 0
  /\ stallTracker = [n \in 1..NodeCount |-> NoState]
  /\ pc = "detect"
  /\ snapshot = NoSnapshot
  /\ cond = 2
  /\ rs = NoRs
  /\ cmds = NoCmds
  /\ shutdown = "none"
  /\ faults = 0
  /\ cycle = NoCycle

limiterFrame ==
  <<forkVars, auxVars, config, world, ml0Ordinal, stallTracker, pc, snapshot, cond, result, rs,
    cmds, shutdown, faults, cycle>>

\* executeRestart(config, result): refused, or admitted and run to its end;
\* the procedure succeeds or throws, and takes no time or one step
LimiterAttempt ==
  /\ \E succeeds \in BOOLEAN, took \in {0, LimiterStepMinutes} :
       LET verdict == Admission(config, restartHistory, now, result)
           ev == NewEvent(result, now)
           done == IF succeeds THEN [ev EXCEPT !.success = TRUE]
                   ELSE CatchError(ev, "ssh failed").event
       IN /\ call' = [NoCall EXCEPT !.made = TRUE, !.at = now, !.history = restartHistory,
                                    !.scope = result.restartScope, !.verdict = verdict,
                                    !.failed = (verdict = "admit" /\ ~succeeds)]
          /\ IF verdict = "admit"
             THEN /\ now + took <= MaxLimiterTime
                  /\ now' = now + took
                  /\ event' = done
                  /\ restartHistory' = PushEvent(restartHistory, done)
                  /\ ret' = IF succeeds THEN "true" ELSE "false"
             ELSE /\ ret' = "false"
                  /\ UNCHANGED <<now, event, restartHistory>>
  /\ UNCHANGED limiterFrame

\* the interval between two cycles
LimiterTick ==
  /\ now + LimiterStepMinutes <= MaxLimiterTime
  /\ now' = now + LimiterStepMinutes
  /\ UNCHANGED <<limiterFrame, restartHistory, event, ret, call>>

LimiterNext == LimiterAttempt \/ LimiterTick

SpecLimiter == LimiterInit /\ [][LimiterNext]_vars

\* ------------------------------------------------------------------------
\* Properties of the rate limit
\* ------------------------------------------------------------------------

\* C36: with restartCooldownMinutes * maxRestartsPerHour >= 60, the default
\* configuration included, the rate limit never refuses what the cooldown
\* would admit: whenever the history holds at least the maximum number of
\* entries of the trailing 60 minutes, its last entry is younger than the
\* cooldown.
C36_RateLimitWithinCooldown ==
  (config.restartCooldownMinutes * config.maxRestartsPerHour >= 60
     /\ RateLimited(config, restartHistory, now))
    => CooldownActive(config, restartHistory, now)

C36_Witness ==
  /\ config.restartCooldownMinutes = DefaultCooldownMinutes
  /\ config.maxRestartsPerHour = DefaultMaxRestartsPerHour
  /\ call.made /\ call.verdict = "rate-limit" /\ call.at = now
  /\ RateLimited(config, restartHistory, now)
  /\ CooldownActive(config, restartHistory, now)

ContainerOps == {"stop", "start", "join"}

\* the container commands issued for gl0 so far
Gl0Commands ==
  {p \in 1..Len(Issued(cmds)) :
     Issued(cmds)[p].layer = "gl0" /\ Issued(cmds)[p].op \in ContainerOps}

\* C37: the full-metagraph procedure never stops, starts or joins a gl0
\* container, also when the detection lists gl0 among the affected layers;
\* a gl0 container is commanded only within an individual-node restart of a
\* detection that lists gl0 (in place, or after the escalation to a
\* full-layer restart of gl0).
C37_FullMetagraphSparesGl0 ==
  /\ FullMetagraphCall => Gl0Commands = {}
  /\ Gl0Commands # {} =>
       /\ call.scope = "individual-node"
       /\ "gl0" \in Range(result.affectedLayers)

C37_Witness ==
  /\ FullMetagraphCall /\ CallReturned /\ ret = "true"
  /\ "gl0" \in Range(result.affectedLayers)
  /\ \A l \in Range(METAGRAPH_LAYERS) :
       \E p \in 1..Len(Issued(cmds)) : Issued(cmds)[p].layer = l /\ Issued(cmds)[p].op = "start"

\* ------------------------------------------------------------------------
\* Individual specification: executeRestart on the individual-node
\* detections of detectUnhealthyNodesFromSnapshot, with their snapshots
\* ------------------------------------------------------------------------

\* snapshots on which detectUnhealthyNodesFromSnapshot reports individual
\* nodes on at most MaxAffectedLayers layers
IndividualSnapshots ==
  {s \in {MaskSnapshot(NodeCount, mask, "down", "Ready") :
            mask \in [1..NodeCount -> [Range(ALL_LAYERS) -> BOOLEAN]]} :
     LET res == detectUnhealthyNodesFromSnapshot(DefaultConfig(FALSE), s)
     IN /\ res.detected
        /\ res.restartScope = "individual-node"
        /\ Len(res.affectedLayers) <= MaxAffectedLayers}

\* executeRestart has passed its checks and entered the try block
IndividualInit ==
  /\ snapshot \in IndividualSnapshots
  /\ config = DefaultConfig(FALSE)
  /\ result = detectUnhealthyNodesFromSnapshot(config, snapshot)
  /\ event = NewEvent(result, 0)
  /\ rs = [stack |-> StartProcedure(config, result).stack, par |-> NoPar]
  /\ call = [made |-> TRUE, at |-> 0, history |-> <<>>, cmds |-> NoCmds,
             scope |-> result.restartScope, verdict |-> "admit",
             escalated |-> \E i \in 1..Len(rs.stack) : rs.stack[i].step = "escalated",
             failed |-> FALSE]
  /\ views \in {[n \in 1..NodeCount |-> answers] : answers \in BOOLEAN}
  /\ pc = "restart"
  /\ now = 0
  /\ stallPrev = NoStallPrev
  /\ reader = NoReader
  /\ PublisherIdle
  /\ ForkIdle
  /\ world = [name |-> "healthy", advancing |-> TRUE]
  /\ ml0Ordinal = 0
  /\ restartHistory = <<>>
  /\ stallTracker = [n \in 1..NodeCount |-> NoState]
  /\ cond = 3
  /\ cmds = NoCmds
  /\ ret = "none"
  /\ shutdown = "none"
  /\ faults = 0
  /\ cycle = NoCycle

SpecIndividual == IndividualInit /\ [][RestartNext]_vars

\* C38: unless it escalates, an individual-node restart stops a layer process
\* on a node only if the snapshot of the detection shows that node unhealthy
\* on that layer.
C38_OnlyUnhealthyPairsStopped ==
  (IndividualCall /\ ~call.escalated) =>
    \A p \in 1..Len(cmds.seq) :
      cmds.seq[p].op = "stop" =>
        IsUnhealthy(snapshot.nodes[cmds.seq[p].node].layers[cmds.seq[p].layer])

\* a restart for SnapshotsStopped is on record: the stall was detected then
StallOnRecord ==
  \E i \in 1..Len(restartHistory) : restartHistory[i].condition = "SnapshotsStopped"

\* this step is the stall detector's turn of a cycle, and it returns
StallDetectorRuns ==
  /\ pc = "detect" /\ Conditions[cond] = "SnapshotsStopped"
  /\ Len(cycle'.evaluated) = Len(cycle.evaluated) + 1
  /\ ~cycle'.evaluated[Len(cycle'.evaluated)].threw

\* the same node is selected and reports the ordinal it reported before
SameNodeSameOrdinal ==
  /\ ~world.advancing
  /\ Ml0Candidates(snapshot) # {}
  /\ stallTracker[FirstCandidate(snapshot)].tracked
  /\ stallTracker[FirstCandidate(snapshot)].ordinal
       = snapshot.nodes[FirstCandidate(snapshot)].layers["ml0"].ordinal

\* C39: executeRestart never modifies the stall tracker, so a stall that was
\* detected is detected again in every later cycle in which the same node is
\* selected with the same ordinal, whether the restart in between was
\* executed, failed or refused.
C39_StallDetectedAgain ==
  /\ [][(StallDetectorRuns /\ StallOnRecord /\ SameNodeSameOrdinal)
          => (result'.detected /\ result'.condition = "SnapshotsStopped")]_vars
  /\ [][(pc \in {"restart", "publish"}) => (stallTracker' = stallTracker)]_vars

\* detected again after a restart that failed and a later one that was refused
C39_Witness ==
  /\ StallOnRecord
  /\ ~restartHistory[Len(restartHistory)].success
  /\ Len(restartHistory) = 1
  /\ now >= restartHistory[1].timestamp + 2
  /\ pc = "publish" /\ call.verdict = "cooldown"
  /\ result.detected /\ result.condition = "SnapshotsStopped"

\* ------------------------------------------------------------------------
\* Legacy specification: restartFullMetagraph of the health-monitor package
\* (packages/health-monitor/src/restart.ts), called once on a restart
\* history of the module's earlier restarts
\* ------------------------------------------------------------------------

MAX_RESTARTS_PER_HOUR == 6
\* HISTORY_RETENTION_MS, in minutes
HISTORY_RETENTION_MINUTES == 60

\* entries of the initial restart history
MaxLegacyHistory == 6
\* minutes the clock may advance while the procedure runs
MaxLegacyMinutes == 2

LegacyStart == HISTORY_RETENTION_MINUTES + 1
l1Layers == <<"CL1", "DL1">>
\* the layers restartFullMetagraph stops, in the order it stops them
LegacyLayers == l1Layers \o <<"ML0">>

\* the while loop of recordRestart: entries older than the cutoff leave the
\* front of the history
RECURSIVE pruneHistory(_, _)
pruneHistory(history, cutoff) ==
  IF Len(history) > 0 /\ history[1].timestamp < cutoff
  THEN pruneHistory(Tail(history), cutoff)
  ELSE history

recordRestart(history, ev, clock) ==
  pruneHistory(Append(history, [timestamp |-> clock, scope |-> ev.scope, layer |-> ev.layer]),
               clock - HISTORY_RETENTION_MINUTES)

legacyRecentRestartCount(history, clock) ==
  Cardinality({i \in 1..Len(history) :
                 history[i].timestamp > clock - HISTORY_RETENTION_MINUTES})

canRestart(history, clock) == ~(legacyRecentRestartCount(history, clock) >= MAX_RESTARTS_PER_HOUR)

\* docker stop on every node of the layer
stopLayer(layer) == [n \in 1..NodeCount |-> [op |-> "stop", layer |-> layer, node |-> n]]

\* restartLayerOnNode: docker stop, then docker start
restartLayerOnNode(layer, n) ==
  <<[op |-> "stop", layer |-> layer, node |-> n], [op |-> "start", layer |-> layer, node |-> n]>>

RECURSIVE restartNodes(_, _)
restartNodes(layer, n) ==
  IF n > NodeCount THEN <<>> ELSE restartLayerOnNode(layer, n) \o restartNodes(layer, n + 1)

\* the remote operations of restartFullLayer once admitted: every node
\* stopped, then the genesis node and the validators restarted in turn
fullLayerBody(layer) == stopLayer(layer) \o restartNodes(layer, 1)

\* what restartFullLayer has issued when it ends: the whole body, or, when a
\* remoteExec was rejected, the stops and the restarts up to the rejected one
fullLayerIssued(layer, rejected) ==
  IF rejected
  THEN {stopLayer(layer) \o SubSeq(restartNodes(layer, 1), 1, k) :
          k \in 0..Len(restartNodes(layer, 1))}
  ELSE {fullLayerBody(layer)}

\* restart histories the module can have built: timestamps never decrease
LegacyTimes == {0, 1, 2, HISTORY_RETENTION_MINUTES}

LegacyHistories ==
  {h \in UNION {[1..n -> [timestamp : LegacyTimes, scope : {"layer"}, layer : {"ML0"}]] :
                  n \in 0..MaxLegacyHistory} :
     \A i \in 1..Len(h) - 1 : h[i].timestamp <= h[i + 1].timestamp}

NoLegacyCall == [made |-> FALSE, admitted |-> FALSE, history |-> <<>>, refused |-> {}]

LegacyInit ==
  /\ restartHistory \in LegacyHistories
  /\ now = LegacyStart
  /\ pc = "enter"
  /\ rs = <<>>
  /\ cmds = NoCmds
  /\ ret = "none"
  /\ faults = 0
  /\ call = NoLegacyCall
  /\ config = DefaultConfig(FALSE)
  /\ AuxIdle
  /\ ForkIdle
  /\ world = [name |-> "healthy", advancing |-> FALSE]
  /\ ml0Ordinal = 0
  /\ stallTracker = [n \in 1..NodeCount |-> NoState]
  /\ snapshot = NoSnapshot
  /\ cond = 1
  /\ result = NotDetected("", "")
  /\ event = NoEvent
  /\ shutdown = "none"
  /\ cycle = NoCycle

legacyFrame ==
  <<forkVars, auxVars, config, world, ml0Ordinal, stallTracker, snapshot, cond, result, event,
    shutdown, cycle>>

\* restartFullMetagraph up to its first await: refused, or recorded
restartFullMetagraphEnter ==
  /\ pc = "enter"
  /\ call' = [NoLegacyCall EXCEPT !.made = TRUE, !.history = restartHistory,
                                  !.admitted = canRestart(restartHistory, now)]
  /\ IF canRestart(restartHistory, now)
     THEN /\ restartHistory' = recordRestart(restartHistory, [scope |-> "metagraph", layer |-> ""], now)
          /\ rs' = LegacyLayers
          /\ pc' = "stop"
          /\ ret' = ret
     ELSE /\ pc' = "done"
          /\ ret' = "skipped"
          /\ UNCHANGED <<restartHistory, rs>>
  /\ UNCHANGED <<legacyFrame, now, cmds, faults>>

\* one Promise.all of stopLayerOnNode over the nodes: CL1, DL1, then ML0;
\* a rejected remoteExec ends the procedure
restartFullMetagraphStop ==
  /\ pc = "stop"
  /\ cmds' = [cmds EXCEPT !.seq = @ \o stopLayer(Head(rs))]
  /\ \E rejected \in BOOLEAN :
       /\ rejected => faults < MaxFaults
       /\ faults' = IF rejected THEN faults + 1 ELSE faults
       /\ IF rejected
          THEN /\ pc' = "done"
               /\ ret' = "threw"
               /\ rs' = <<>>
          ELSE /\ rs' = Tail(rs)
               /\ pc' = IF Tail(rs) = <<>> THEN "ML0" ELSE "stop"
               /\ ret' = ret
  /\ UNCHANGED <<legacyFrame, now, restartHistory, call>>

\* restartFullLayer(nodes, 'ML0', config) up to its first await
restartFullLayerEnter ==
  /\ pc = "ML0"
  /\ IF canRestart(restartHistory, now)
     THEN /\ restartHistory' = recordRestart(restartHistory, [scope |-> "layer", layer |-> "ML0"], now)
          /\ rs' = <<"ML0">>
          /\ call' = call
     ELSE /\ call' = [call EXCEPT !.refused = @ \cup {"ML0"}]
          /\ UNCHANGED <<restartHistory, rs>>
  /\ pc' = "ML0 body"
  /\ UNCHANGED <<legacyFrame, now, cmds, ret, faults>>

\* the rest of restartFullLayer(nodes, 'ML0', config), if it was admitted
restartFullLayerBody ==
  /\ pc = "ML0 body"
  /\ IF rs = <<>>
     THEN /\ pc' = "L1"
          /\ UNCHANGED <<cmds, faults, ret, rs>>
     ELSE /\ rs' = <<>>
          /\ \E rejected \in BOOLEAN :
               /\ rejected => faults < MaxFaults
               /\ faults' = IF rejected THEN faults + 1 ELSE faults
               /\ cmds' \in {[cmds EXCEPT !.seq = @ \o issued] : issued \in fullLayerIssued("ML0", rejected)}
               /\ pc' = IF rejected THEN "done" ELSE "L1"
               /\ ret' = IF rejected THEN "threw" ELSE ret
  /\ UNCHANGED <<legacyFrame, now, restartHistory, call>>

\* Promise.all(l1Layers.map(layer => restartFullLayer(nodes, layer, config))):
\* both calls run to their first await, CL1 before DL1, with nothing in between
restartL1LayersEnter ==
  /\ pc = "L1"
  /\ LET cl1Allowed == canRestart(restartHistory, now)
         afterCl1 == IF cl1Allowed
                     THEN recordRestart(restartHistory, [scope |-> "layer", layer |-> "CL1"], now)
                     ELSE restartHistory
         dl1Allowed == canRestart(afterCl1, now)
         afterDl1 == IF dl1Allowed
                     THEN recordRestart(afterCl1, [scope |-> "layer", layer |-> "DL1"], now)
                     ELSE afterCl1
     IN /\ restartHistory' = afterDl1
        /\ rs' = (IF cl1Allowed THEN <<"CL1">> ELSE <<>>) \o (IF dl1Allowed THEN <<"DL1">> ELSE <<>>)
        /\ call' = [call EXCEPT !.refused = @ \cup (IF cl1Allowed THEN {} ELSE {"CL1"})
                                                \cup (IF dl1Allowed THEN {} ELSE {"DL1"})]
  /\ pc' = "L1 bodies"
  /\ UNCHANGED <<legacyFrame, now, cmds, ret, faults>>

LegacyPar(layer) == IF layer = "CL1" THEN "cl1" ELSE "dl1"

\* the rest of one admitted restartFullLayer call of the Promise.all; a
\* rejection rejects the Promise.all while the other call keeps running
restartL1LayerBody ==
  /\ pc = "L1 bodies"
  /\ \E i \in 1..Len(rs), rejected \in BOOLEAN :
       /\ rejected => faults < MaxFaults
       /\ faults' = IF rejected THEN faults + 1 ELSE faults
       /\ cmds' \in {[cmds EXCEPT !.par[LegacyPar(rs[i])] = @ \o issued] :
                       issued \in fullLayerIssued(rs[i], rejected)}
       /\ rs' = SubSeq(rs, 1, i - 1) \o SubSeq(rs, i + 1, Len(rs))
       /\ ret' = IF rejected THEN "threw" ELSE ret
  /\ pc' = pc
  /\ UNCHANGED <<legacyFrame, now, restartHistory, call>>

\* both calls have settled
restartFullMetagraphReturn ==
  /\ pc = "L1 bodies"
  /\ rs = <<>>
  /\ pc' = "done"
  /\ ret' = IF ret = "threw" THEN ret ELSE "returned"
  /\ UNCHANGED <<legacyFrame, now, restartHistory, call, cmds, rs, faults>>

\* time passes at an await
LegacyTick ==
  /\ pc # "done"
  /\ now < LegacyStart + MaxLegacyMinutes
  /\ now' = now + 1
  /\ UNCHANGED <<legacyFrame, restartHistory, pc, rs, cmds, ret, faults, call>>

LegacyNext ==
  \/ restartFullMetagraphEnter
  \/ restartFullMetagraphStop
  \/ restartFullLayerEnter
  \/ restartFullLayerBody
  \/ restartL1LayersEnter
  \/ restartL1LayerBody
  \/ restartFullMetagraphReturn
  \/ LegacyTick

SpecLegacy == LegacyInit /\ [][LegacyNext]_vars

\* ------------------------------------------------------------------------
\* Properties of the legacy restart module
\* ------------------------------------------------------------------------

\* the operations issued on one layer, in the order they were issued
LegacyLog(layer) ==
  LET onLayer(c) == c.layer = layer
  IN SelectSeq(cmds.seq, onLayer)
       \o (IF layer = "ML0" THEN <<>> ELSE cmds.par[LegacyPar(layer)])

\* some container of the layer was stopped and not started since
LeftStopped(layer) ==
  \E n \in 1..NodeCount :
    LET onNode(c) == c.node = n
        log == SelectSeq(LegacyLog(layer), onNode)
    IN Len(log) > 0 /\ log[Len(log)].op = "stop"

\* C40: a full-metagraph restart of the legacy module that the rate limiter
\* admitted and that has stopped CL1, DL1 and ML0 never ends with one of
\* these layers stopped and not restarted because the rate-limit check
\* inside restartFullLayer refused, whatever the initial restart history.
C40_AdmittedRestartStartsEveryLayer ==
  (pc = "done" /\ call.admitted)
    => \A i \in 1..Len(LegacyLayers) :
         ~(LegacyLayers[i] \in call.refused /\ LeftStopped(LegacyLayers[i]))

====
